---------------------------- MODULE Spec2Model ----------------------------
(***************************************************************************)
(* Procedural tree generator (crates tree-rs and tree-engine).             *)
(*                                                                         *)
(* A TreeObject owns a parameter bundle, a list of cross-sections and a    *)
(* list of twigs.  Construction and every setter run one generation pass:  *)
(* trunk rings, the coordinated branch recursion, the root engine and the  *)
(* twig scan.  The recursion of the source is modelled by an explicit call *)
(* stack: one action per call of the recursive functions, the frames of a  *)
(* call's later recursive calls pushed in the order the source makes them. *)
(*                                                                         *)
(* Numbers are fixed point:                                                *)
(*   lengths and positions   1 unit = 0.01                                 *)
(*   ring radii              1 unit = 0.0001                               *)
(*   ratios and factors      permille                                      *)
(*   butressing, trunk_size, twig_density   tenths                         *)
(*   angles                  degrees                                       *)
(* Geometry is projected on the x-y plane and growth directions are        *)
(* multiples of 45 degrees (0 = up, clockwise).                            *)
(* Cross-section indices are the source's 0-based indices: the i-th        *)
(* cross-section is cross_sections[i + 1].                                 *)
(* Fields named g_* are history (ghost) fields that the source does not    *)
(* keep; they record how a record came to be.                              *)
(***************************************************************************)
EXTENDS Integers, Sequences, FiniteSets, TLC

VARIABLES
    engine,          \* which crate's TreeObject this is: "tree_rs" or "tree_engine"
    params,          \* the TreeObject's parameter fields
    cross_sections,  \* tree.cross_sections
    twigs,           \* tree.twigs
    rng,             \* state of the SmallRng of the running pass
    stack,           \* pending recursive calls of the running pass (top first)
    pc,              \* position of the running pass, "idle" between passes
    mesh,            \* value returned by the last generate_mesh call, or NoMesh
    result           \* value returned by the last read accessor call, or NoResult

vars == <<engine, params, cross_sections, twigs, rng, stack, pc, mesh, result>>

---------------------------------------------------------------------------
(* Bounds of the model *)

MaxSeed == 2
MaxDepthParam == 3
MaxResolution == 2
MaxPassSteps == 200

MaxButressing == 30
MaxTrunkSizeArg == 40
MaxIndexPast == 1
MaxMagnitude == 100
MaxChangedFields == 1

Seeds == 0..MaxSeed
Engines == {"tree_rs", "tree_engine"}

---------------------------------------------------------------------------
(* Arithmetic helpers *)

Min(a, b) == IF a <= b THEN a ELSE b
Max(a, b) == IF a >= b THEN a ELSE b
Clamp(x, lo, hi) == Min(Max(x, lo), hi)
Abs(x) == IF x < 0 THEN -x ELSE x

\* f32::ceil of a / b followed by `as u32` (saturating at 0 for negatives)
CeilDivU32(a, b) ==
    IF a <= 0 THEN 0 ELSE (a + b - 1) \div b

\* rounding of x / d to the nearest integer (d > 0)
RoundDiv(x, d) ==
    IF x >= 0 THEN (2 * x + d) \div (2 * d) ELSE -((2 * (-x) + d) \div (2 * d))

RECURSIVE IsqrtBetween(_, _, _)
IsqrtBetween(n, lo, hi) ==
    IF lo >= hi THEN lo
    ELSE LET mid == (lo + hi + 1) \div 2
         IN IF mid * mid <= n THEN IsqrtBetween(n, mid, hi)
                              ELSE IsqrtBetween(n, lo, mid - 1)

\* f32::sqrt on the fixed-point grid: the largest r with r * r <= n
Isqrt(n) == IsqrtBetween(n, 0, 46340)

RECURSIVE SumSq(_)
SumSq(rings) ==
    IF rings = <<>> THEN 0
    ELSE Head(rings).radius * Head(rings).radius + SumSq(Tail(rings))

---------------------------------------------------------------------------
(* The seeded random stream.  SmallRng is an external generator; it is     *)
(* modelled by a 16-bit linear congruential generator whose only state is  *)
(* derived from the seed, and gen_range by scaling the high byte.          *)

SeedFromU64(seed) == (seed * 7919 + 4099) % 65536

NextRng(s) == (s * 25173 + 13849) % 65536

RECURSIVE Advance(_, _)
\* the generator state after k draws
Advance(s, k) == IF k = 0 THEN s ELSE Advance(NextRng(s), k - 1)

\* the raw value (0..255) of the k-th draw made from state s (k >= 1)
Raw(s, k) == Advance(s, k) \div 256

\* rng.gen_range(lo..=hi) on a fixed-point real range
GenRange(raw, lo, hi) == lo + (raw * (hi - lo)) \div 255

\* rng.gen_range(lo..=hi) on integers
GenRangeInt(raw, lo, hi) == lo + (raw * (hi - lo + 1)) \div 256

\* rng.gen_range(0.0..1.0), in permille
GenUnit(raw) == (raw * 1000) \div 256

---------------------------------------------------------------------------
(* Directions: multiples of 45 degrees, 0 = +y (up), clockwise.            *)

DirX == <<0, 707, 1000, 707, 0, -707, -1000, -707>>
DirY == <<1000, 707, 0, -707, -1000, -707, 0, 707>>

Turn(dir, units) == (dir + units + 64) % 8

\* center + direction * length
Advanced(center, dir, length) ==
    << center[1] + (DirX[dir + 1] * length) \div 1000,
       center[2] + (DirY[dir + 1] * length) \div 1000 >>

---------------------------------------------------------------------------
(* Parameters *)

\* TreeObject::new(seed, trunk_height, butressing): the field values the two
\* constructors install
NewParams(e, seed, trunk_height, butressing) ==
    [ seed                     |-> seed,
      trunk_height             |-> trunk_height,
      butressing               |-> butressing,
      split_height             |-> (trunk_height * 6) \div 10,
      segment_length           |-> 30,
      branch_angle_min         |-> IF e = "tree_rs" THEN 25 ELSE 15,
      branch_angle_max         |-> 45,
      bend_angle_min           |-> IF e = "tree_rs" THEN -15 ELSE 5,
      bend_angle_max           |-> IF e = "tree_rs" THEN 15 ELSE 25,
      branch_frequency_min     |-> 2,
      branch_frequency_max     |-> IF e = "tree_rs" THEN 4 ELSE 5,
      max_depth                |-> IF e = "tree_rs" THEN 20 ELSE 8,
      radius_taper             |-> 800,
      trunk_ring_spread        |-> IF e = "tree_rs" THEN 500 ELSE 300,
      segment_length_variation |-> IF e = "tree_rs" THEN 300 ELSE 200,
      trunk_size               |-> IF e = "tree_rs" THEN 30 ELSE 10,
      branch_azimuth_variation |-> IF e = "tree_rs" THEN 500 ELSE 800,
      max_branch_reach         |-> IF e = "tree_rs" THEN 5000 ELSE 2500,
      root_enable              |-> TRUE,
      root_depth               |-> 150,
      root_spread              |-> 1200,
      root_density             |-> 4,
      root_segment_length      |-> IF e = "tree_rs" THEN 30 ELSE 40,
      twig_enable              |-> TRUE,
      twig_density             |-> 10,
      twig_scale               |-> IF e = "tree_rs" THEN 1000 ELSE 800,
      twig_angle_variation     |-> IF e = "tree_rs" THEN 500 ELSE 600 ]

\* The clamps of the numeric setters
ClampMaxDepth(n) == Max(n, 1)
ClampSegmentLength(x) == Max(x, 1)
\* the taper clamp without its upper limit
ClampRadiusTaperNoMax(x) == Max(x, 100)

ClampRadiusTaper(x) == Min(Max(x, 100), 1000)
ClampTrunkSize(x) == Min(Max(x, 1), 100)
ClampMaxBranchReach(x) == Min(Max(x, 200), 5000)
ClampRootDepth(x) == Min(Max(x, 50), 300)
ClampRootDensity(n) == Min(Max(n, 2), 8)
ClampRootSegmentLength(x) == Min(Max(x, 10), 80)
ClampTwigDensity(x) == Min(Max(x, 1), 20)
\* the frequency minimum without its floor of 1
ClampFrequencyMinNoFloor(mn, mx) == Min(mn, Max(mx, 1))

ClampFrequencyMin(mn, mx) == Min(Max(mn, 1), Max(mx, 1))
ClampFrequencyMax(mn, mx) == Max(Max(mx, 1), ClampFrequencyMin(mn, mx))

\* Arguments handed to the setters before the first modelled pass.  Each
\* profile is a sequence of setter arguments; the values stored are the
\* clamped ones.
Profiles ==
    { \* one thick ring, branches at every opportunity
      [ max_branch_reach |-> 0,   segment_length |-> 50, trunk_size |-> 30,
        radius_taper |-> 800, frequency |-> <<1, 1>>, root_depth |-> 0,
        root_density |-> 2, root_segment_length |-> 30, twig_density |-> 10 ],
      \* two thin rings, strongest taper, twigs everywhere
      [ max_branch_reach |-> 150, segment_length |-> 50, trunk_size |-> 0,
        radius_taper |-> 0,   frequency |-> <<2, 1>>, root_depth |-> 50,
        root_density |-> 3, root_segment_length |-> 20, twig_density |-> 30 ],
      \* no taper at all, sparse branching
      [ max_branch_reach |-> 200, segment_length |-> 100, trunk_size |-> 2,
        radius_taper |-> 1200, frequency |-> <<2, 2>>, root_depth |-> 50,
        root_density |-> 0, root_segment_length |-> 15, twig_density |-> 10 ],
      \* shortest segments that still leave the reach limit behind the cap
      [ max_branch_reach |-> 200, segment_length |-> 10, trunk_size |-> 1,
        radius_taper |-> 1000, frequency |-> <<30, 30>>, root_depth |-> 50,
        root_density |-> 2, root_segment_length |-> 80, twig_density |-> 0 ] }

Configured(p, prof) ==
    [ p EXCEPT
        !.max_branch_reach     = ClampMaxBranchReach(prof.max_branch_reach),
        !.segment_length       = ClampSegmentLength(prof.segment_length),
        !.trunk_size           = ClampTrunkSize(prof.trunk_size),
        !.radius_taper         = ClampRadiusTaper(prof.radius_taper),
        !.branch_frequency_min = ClampFrequencyMin(prof.frequency[1], prof.frequency[2]),
        !.branch_frequency_max = ClampFrequencyMax(prof.frequency[1], prof.frequency[2]),
        !.root_depth           = ClampRootDepth(prof.root_depth),
        !.root_density         = ClampRootDensity(prof.root_density),
        !.root_segment_length  = ClampRootSegmentLength(prof.root_segment_length),
        !.twig_density         = ClampTwigDensity(prof.twig_density) ]

\* long thin roots: the smallest root segments under the deepest root
\* limit, and a trunk that runs into its segment cap
DeepRootProfile ==
    [ max_branch_reach |-> 200, segment_length |-> 10, trunk_size |-> 8,
      radius_taper |-> 1000, frequency |-> <<30, 30>>, root_depth |-> 300,
      root_density |-> 2, root_segment_length |-> 10, twig_density |-> 10 ]

\* Constructor arguments
TrunkHeights == {100}
Butressings == {5, 10, 12}

---------------------------------------------------------------------------
(* Ring generator *)

\* ring count derived from butressing (tenths)
RingCount(butressing) ==
    IF butressing < 7 THEN 1
    ELSE Max((butressing - 5) * 3 + 10, 10) \div 10

\* 0.5 * trunk_size, in radius units
BaseTrunkRadius(trunk_size) == trunk_size * 500

\* the base radius divided among the rings instead of the base area
IndividualRingRadiusLinear(base_radius, ring_count) == base_radius \div ring_count

\* sqrt((PI * r * r / ring_count) / PI)
IndividualRingRadius(base_radius, ring_count) ==
    Isqrt((base_radius * base_radius) \div ring_count)

GenerateTrunkRings(p) ==
    LET ring_count == RingCount(p.butressing)
        base_trunk_radius == BaseTrunkRadius(p.trunk_size)
    IN IF ring_count = 1
       THEN << [radius |-> base_trunk_radius, ring_type |-> "MainTrunk", g_src |-> 0] >>
       ELSE [ i \in 1..ring_count |->
                [ radius    |-> IndividualRingRadius(base_trunk_radius, ring_count),
                  ring_type |-> IF i = 1 THEN "MainTrunk" ELSE "SideBranch",
                  g_src     |-> 0 ] ]

CreateChildRingFromParent(parent_ring, src, taper_ratio) ==
    [ radius    |-> (parent_ring.radius * taper_ratio) \div 1000,
      ring_type |-> parent_ring.ring_type,
      g_src     |-> src ]

---------------------------------------------------------------------------
(* Cross-sections and pending calls *)

\* BranchCrossSection.  g_origin records which statement created it.
CrossSection(center, depth, rings, parent_index, origin) ==
    [ center           |-> center,
      depth            |-> depth,
      component_rings  |-> rings,
      parent_index     |-> parent_index,
      children_indices |-> <<>>,
      g_origin         |-> origin ]

\* parent_index: None
None == -1

\* the push of the child index made after the push of the cross-section,
\* reading the list length again
PushChildLate(cs_list, parent, cs) ==
    Append([cs_list EXCEPT ![parent + 1].children_indices = Append(@, Len(cs_list) + 1)], cs)

\* cross_sections[parent].children_indices.push(child); cross_sections.push(cs)
PushChild(cs_list, parent, cs) ==
    Append([cs_list EXCEPT ![parent + 1].children_indices = Append(@, Len(cs_list))], cs)

\* a pending call that counts the segments of its depth from 0 again
GrowFrameDepthCountReset(index, dir, depth, segments_since_branch, segments_at_current_depth) ==
    [ kind |-> "grow", index |-> index, dir |-> dir, depth |-> depth,
      segments_since_branch |-> segments_since_branch,
      segments_at_current_depth |-> 0,
      segment_length |-> 0, current_radius |-> 0, g_side |-> FALSE ]

\* One pending call of generate_coordinated_recursive
GrowFrame(index, dir, depth, segments_since_branch, segments_at_current_depth) ==
    [ kind |-> "grow", index |-> index, dir |-> dir, depth |-> depth,
      segments_since_branch |-> segments_since_branch,
      segments_at_current_depth |-> segments_at_current_depth,
      segment_length |-> 0, current_radius |-> 0, g_side |-> FALSE ]

\* One pending call of generate_root_recursive_static
RootFrame(index, dir, depth, segment_length, current_radius, side) ==
    [ kind |-> "root", index |-> index, dir |-> dir, depth |-> depth,
      segments_since_branch |-> 0, segments_at_current_depth |-> 0,
      segment_length |-> segment_length, current_radius |-> current_radius,
      g_side |-> side ]

\* The rest of a generate_root_recursive_static call after its first
\* recursive call has returned (the side-root decision)
SideFrame(index, dir, depth, segment_length, current_radius) ==
    [ kind |-> "side", index |-> index, dir |-> dir, depth |-> depth,
      segments_since_branch |-> 0, segments_at_current_depth |-> 0,
      segment_length |-> segment_length, current_radius |-> current_radius,
      g_side |-> FALSE ]

\* The rest of generate_root_system's loop, from iteration i on
LoopFrame(i) ==
    [ kind |-> "loop", index |-> i, dir |-> 0, depth |-> 0,
      segments_since_branch |-> 0, segments_at_current_depth |-> 0,
      segment_length |-> 0, current_radius |-> 0, g_side |-> FALSE ]

---------------------------------------------------------------------------
(* Growth step: generate_coordinated_recursive *)

\* the trunk_height argument of the recursion: tree-rs passes split_height,
\* tree-engine reads trunk_params.height
TrunkHeightArg(e, p) == IF e = "tree_rs" THEN p.split_height ELSE p.trunk_height

\* f32::INFINITY: the height setters store any f32, this one included
Infinity == 2147483647

\* (trunk_height / segment_length).ceil() as u32 + 10, in 32-bit unsigned
\* arithmetic on two 16-bit halves: the cast saturates at u32::MAX, and the
\* sum that passes u32::MAX wraps around in a build without overflow checks
MinSegmentsPlusTen(trunk_height, segment_length) ==
    LET min_segments_for_height ==
            IF trunk_height = Infinity THEN << 65535, 65535 >>
            ELSE << CeilDivU32(trunk_height, segment_length) \div 65536,
                    CeilDivU32(trunk_height, segment_length) % 65536 >>
        low == min_segments_for_height[2] + 10
        high == min_segments_for_height[1] + low \div 65536
    IN [ overflow |-> high >= 65536,
         sum      |-> (high % 65536) * 65536 + (low % 65536) ]

\* the cap table without its last row: two segments at every depth past 12
MaxSegmentsAtDepthNoLastRow(depth, trunk_height, segment_length) ==
    IF depth <= 2 THEN Max(MinSegmentsPlusTen(trunk_height, segment_length).sum, 20)
    ELSE IF depth <= 5 THEN 8
    ELSE IF depth <= 8 THEN 4
    ELSE IF depth <= 12 THEN 3
    ELSE 2

MaxSegmentsAtDepth(depth, trunk_height, segment_length) ==
    IF depth <= 2 THEN Max(MinSegmentsPlusTen(trunk_height, segment_length).sum, 20)
    ELSE IF depth <= 5 THEN 8
    ELSE IF depth <= 8 THEN 4
    ELSE IF depth <= 12 THEN 3
    ELSE IF depth <= 16 THEN 2
    ELSE 1

DepthStop(f, p) == f.depth >= p.max_depth

\* the per-depth segment cap never applied
SegmentCapNever(f, e, p) == FALSE

SegmentCapStop(f, e, p) ==
    f.segments_at_current_depth >=
        MaxSegmentsAtDepth(f.depth, TrunkHeightArg(e, p), p.segment_length)

NoRingsStop(c) == c.component_rings = <<>>

\* effective_trunk_radius < 0.005, compared on the squares
RadiusStop(c) == SumSq(c.component_rings) < 50 * 50

\* current_center.length() > max_branch_reach * 1.5, compared on the squares
ReachStop(c, p) ==
    c.center[1] * c.center[1] + c.center[2] * c.center[2]
        > ((p.max_branch_reach * 3) \div 2) * ((p.max_branch_reach * 3) \div 2)

GrowStops(cs_list, f, e, p) ==
    \/ DepthStop(f, p)
    \/ SegmentCapStop(f, e, p)
    \/ NoRingsStop(cs_list[f.index + 1])
    \/ RadiusStop(cs_list[f.index + 1])
    \/ ReachStop(cs_list[f.index + 1], p)

\* bend_reduction_factor, permille
BendReductionFactor(depth) ==
    IF depth <= 1 THEN 100 ELSE IF depth <= 3 THEN 300 ELSE IF depth <= 5 THEN 600 ELSE 1000

\* rotation of a direction by an angle (millidegrees) about an axis whose
\* z component has the sign of axis_z
Bent(dir, angle_md, axis_z) ==
    Turn(dir, (IF axis_z < 0 THEN -1 ELSE 1) * RoundDiv(angle_md, 45000))

\* draws 1..3 of a growth step: bend angle and bend axis
BentDirection(f, s, p) ==
    LET factor == BendReductionFactor(f.depth)
        bend_min == Min(p.bend_angle_min, p.bend_angle_max) * factor
        bend_max == Max(p.bend_angle_max, p.bend_angle_min) * factor
    IN Bent(f.dir, GenRange(Raw(s, 1), bend_min, bend_max), GenRange(Raw(s, 3), -1000, 1000))

\* segment_length * max(1 + draw * segment_length_variation, 0.1)
VariedSegmentLength(segment_length, raw, variation) ==
    (segment_length * Max(1000 + (GenRange(raw, -1000, 1000) * variation) \div 1000, 100))
        \div 1000

\* draw 4: the next centre
NextCenter(cs_list, f, s, p) ==
    Advanced(cs_list[f.index + 1].center, BentDirection(f, s, p),
             VariedSegmentLength(p.segment_length, Raw(s, 4), p.segment_length_variation))

FreqMin(p) == Max(p.branch_frequency_min, 1)
FreqMax(p) == Max(p.branch_frequency_max, FreqMin(p))

\* the branch decision with the depth test off by one
ShouldBranchOffByOne(cs_list, f, s, p) ==
    /\ f.segments_since_branch >= GenRangeInt(Raw(s, 5), FreqMin(p), FreqMax(p))
    /\ NextCenter(cs_list, f, s, p)[2] >= p.split_height
    /\ f.depth < p.max_depth

\* the branch decision without the height test
ShouldBranchAnyHeight(cs_list, f, s, p) ==
    /\ f.segments_since_branch >= GenRangeInt(Raw(s, 5), FreqMin(p), FreqMax(p))
    /\ f.depth < p.max_depth - 1

\* draw 5: the branch decision
ShouldBranch(cs_list, f, s, p) ==
    /\ f.segments_since_branch >= GenRangeInt(Raw(s, 5), FreqMin(p), FreqMax(p))
    /\ NextCenter(cs_list, f, s, p)[2] >= p.split_height
    /\ f.depth < p.max_depth - 1

\* 1 - (1 - radius_taper) * factor, permille
SegmentTaper(radius_taper, factor) == 1000 - ((1000 - radius_taper) * factor) \div 1000

ContinuationTaper(rings, next_height, e, p) ==
    LET buttressing_factor == IF Len(rings) > 2 THEN 500 ELSE 1000
        base_taper_factor == IF next_height < TrunkHeightArg(e, p) THEN 50 ELSE 400
    IN SegmentTaper(p.radius_taper, (base_taper_factor * buttressing_factor) \div 1000)

\* the else-arm of the growth step: one child with all rings
Continue(cs_list, f, s, e, p) ==
    LET current_rings == cs_list[f.index + 1].component_rings
        next_center == NextCenter(cs_list, f, s, p)
        segment_taper == ContinuationTaper(current_rings, next_center[2], e, p)
        child_rings == [ i \in 1..Len(current_rings) |->
                           CreateChildRingFromParent(current_rings[i], i - 1, segment_taper) ]
    IN [ cross_sections |->
             PushChild(cs_list, f.index,
                       CrossSection(next_center, f.depth, child_rings, f.index, "continuation")),
         rng   |-> Advance(s, 5),
         frames |-> << GrowFrame(Len(cs_list), BentDirection(f, s, p), f.depth,
                                 f.segments_since_branch + 1,
                                 f.segments_at_current_depth + 1) >> ]

---------------------------------------------------------------------------
(* Branch creation: create_coordinated_branches *)

\* draws 6 and 7 of a branching growth step: the branch direction
BranchDirection(main_direction, s, p) ==
    LET angle_min == Min(p.branch_angle_min, p.branch_angle_max)
        angle_max == Max(p.branch_angle_max, p.branch_angle_min)
        branch_angle == GenRange(Raw(s, 6), angle_min, angle_max)
        units == RoundDiv(branch_angle, 45)
        azimuth_angle == (GenRange(Raw(s, 7), 0, 360) * p.branch_azimuth_variation) \div 1000
    IN IF p.branch_azimuth_variation > 0 /\ azimuth_angle > 90 /\ azimuth_angle < 270
       THEN Turn(main_direction, -units)
       ELSE Turn(main_direction, units)

BranchDraws(p) == IF p.branch_azimuth_variation > 0 THEN 7 ELSE 6

\* taper of the rings that stay with the trunk at a branch point
TrunkSplitTaper(p) == (SegmentTaper(p.radius_taper, 150) * 950) \div 1000

\* the branch of a one-ring parent tapered like the trunk continuation
BranchSplitTaperAsTrunk(parent_rings, p) ==
    IF Len(parent_rings) = 1
    THEN TrunkSplitTaper(p)
    ELSE SegmentTaper(p.radius_taper, 150)

\* taper of the ring that leaves as the branch
BranchSplitTaper(parent_rings, p) ==
    IF Len(parent_rings) = 1
    THEN (SegmentTaper(p.radius_taper, 150) * 800) \div 1000
    ELSE SegmentTaper(p.radius_taper, 150)

\* every parent ring kept by the trunk continuation, the last one included
TrunkRingsAll(parent_rings, p) ==
    [ i \in 1..Len(parent_rings) |->
        CreateChildRingFromParent(parent_rings[i], i - 1, TrunkSplitTaper(p)) ]

TrunkRingsOf(parent_rings, p) ==
    IF Len(parent_rings) = 1
    THEN << CreateChildRingFromParent(parent_rings[1], 0, TrunkSplitTaper(p)) >>
    ELSE [ i \in 1..(Len(parent_rings) - 1) |->
             CreateChildRingFromParent(parent_rings[i], i - 1, TrunkSplitTaper(p)) ]

\* the last ring handed to the branch only when the parent has a ring to spare
BranchRingsOfSpare(parent_rings, p) ==
    IF Len(parent_rings) = 1 THEN <<>>
    ELSE << CreateChildRingFromParent(parent_rings[Len(parent_rings)], Len(parent_rings) - 1,
                                      BranchSplitTaper(parent_rings, p)) >>

BranchRingsOf(parent_rings, p) ==
    << CreateChildRingFromParent(parent_rings[Len(parent_rings)], Len(parent_rings) - 1,
                                 BranchSplitTaper(parent_rings, p)) >>

\* the two recursive calls with the branch made before the trunk
BranchFramesBranchFirst(trunk_cs_idx, main_direction, branch_cs_idx, branch_direction, depth) ==
    << GrowFrame(branch_cs_idx, branch_direction, depth + 1, 0, 0),
       GrowFrame(trunk_cs_idx, main_direction, depth + 1, 0, 0) >>

\* the two recursive calls that end create_coordinated_branches: the trunk
\* continuation first, then the branch
BranchFrames(trunk_cs_idx, main_direction, branch_cs_idx, branch_direction, depth) ==
    << GrowFrame(trunk_cs_idx, main_direction, depth + 1, 0, 0),
       GrowFrame(branch_cs_idx, branch_direction, depth + 1, 0, 0) >>

\* the if-arm of the growth step: two children, rings split between them
CreateCoordinatedBranches(cs_list, f, s, e, p) ==
    LET parent_rings == cs_list[f.index + 1].component_rings
        center == NextCenter(cs_list, f, s, p)
        main_direction == BentDirection(f, s, p)
        branch_direction == BranchDirection(main_direction, s, p)
        trunk_cross_section ==
            CrossSection(Advanced(center, main_direction, p.segment_length), f.depth + 1,
                         TrunkRingsOf(parent_rings, p), f.index, "fork_trunk")
        branch_cross_section ==
            CrossSection(Advanced(center, branch_direction, p.segment_length), f.depth + 1,
                         BranchRingsOf(parent_rings, p), f.index, "fork_branch")
        trunk_cs_idx == Len(cs_list)
        branch_cs_idx == trunk_cs_idx + 1
    IN [ cross_sections |->
             [ cs_list EXCEPT ![f.index + 1].children_indices =
                                  Append(Append(@, trunk_cs_idx), branch_cs_idx) ]
                 \o << trunk_cross_section, branch_cross_section >>,
         rng    |-> Advance(s, BranchDraws(p)),
         frames |-> BranchFrames(trunk_cs_idx, main_direction,
                                 branch_cs_idx, branch_direction, f.depth) ]

---------------------------------------------------------------------------
(* Root engine of tree-rs: generate_root_system, generate_root_recursive_static *)

\* projection of the direction of root i of root_density roots: down and
\* outwards on the side of cos(angle)
RootDirection(i, root_density) ==
    LET angle == (i * 360) \div root_density
    IN IF angle < 90 \/ angle > 270 THEN 3
       ELSE IF angle = 90 \/ angle = 270 THEN 4
       ELSE 5

\* ((i as f32 * rings_per_root) as usize).min(len - 1)
ParentRingIndex(i, ring_len, root_density) ==
    LET rings_per_root == Max((ring_len * 1000) \div root_density, 1000)
    IN Min((i * rings_per_root) \div 1000, ring_len - 1)

\* parent_radius * 0.4
RootStartRadius(parent_radius) == (parent_radius * 400) \div 1000

\* the loop iteration attaching each root to the root made before it
RootSpawnChained(cs_list, i, p) ==
    LET parent_rings == cs_list[1].component_rings
        parent_ring_index == ParentRingIndex(i, Len(parent_rings), p.root_density)
        root_radius == RootStartRadius(parent_rings[parent_ring_index + 1].radius)
        root_direction == RootDirection(i, p.root_density)
        root_ring == [radius |-> root_radius, ring_type |-> "Root", g_src |-> parent_ring_index]
    IN [ cross_sections |->
             PushChild(cs_list, Len(cs_list) - 1,
                       CrossSection(Advanced(cs_list[1].center, root_direction,
                                             p.root_segment_length),
                                    1, << root_ring >>, Len(cs_list) - 1, "root_start")),
         frames |-> << RootFrame(Len(cs_list), root_direction, 1, p.root_segment_length,
                                 root_radius, FALSE),
                       LoopFrame(i + 1) >> ]

\* one iteration of the loop of generate_root_system
RootSpawn(cs_list, i, p) ==
    LET parent_rings == cs_list[1].component_rings
        parent_ring_index == ParentRingIndex(i, Len(parent_rings), p.root_density)
        root_radius == RootStartRadius(parent_rings[parent_ring_index + 1].radius)
        root_direction == RootDirection(i, p.root_density)
        root_ring == [radius |-> root_radius, ring_type |-> "Root", g_src |-> parent_ring_index]
    IN [ cross_sections |->
             PushChild(cs_list, 0,
                       CrossSection(Advanced(cs_list[1].center, root_direction,
                                             p.root_segment_length),
                                    1, << root_ring >>, 0, "root_start")),
         frames |-> << RootFrame(Len(cs_list), root_direction, 1, p.root_segment_length,
                                 root_radius, FALSE),
                       LoopFrame(i + 1) >> ]

RootStops(cs_list, f, p) ==
    \/ f.depth > 25
    \/ f.current_radius < 100
    \/ cs_list[f.index + 1].center[2] < -p.root_depth

\* current_radius * radius_taper * 0.9
NextRootRadius(current_radius, radius_taper) == (current_radius * radius_taper * 9) \div 10000

\* a generate_root_recursive_static call up to its first recursive call
RootGrowth(cs_list, f, s, p) ==
    LET bent_direction == Bent(f.dir, GenRange(Raw(s, 1), -20000, 20000),
                               GenRange(Raw(s, 3), -1000, 1000))
        next_center == Advanced(cs_list[f.index + 1].center, bent_direction,
                                VariedSegmentLength(f.segment_length, Raw(s, 4),
                                                    p.segment_length_variation))
        next_radius == NextRootRadius(f.current_radius, p.radius_taper)
        next_ring == [radius |-> next_radius, ring_type |-> "Root", g_src |-> 0]
        next_cs_index == Len(cs_list)
    IN [ cross_sections |->
             PushChild(cs_list, f.index,
                       CrossSection(next_center, f.depth + 1, << next_ring >>, f.index,
                                    IF f.g_side THEN "side_root" ELSE "root_step")),
         rng    |-> Advance(s, 4),
         frames |-> << RootFrame(next_cs_index, bent_direction, f.depth + 1,
                                 f.segment_length, next_radius, FALSE),
                       SideFrame(next_cs_index, bent_direction, f.depth,
                                 f.segment_length, f.current_radius) >> ]

\* should_branch && depth < 15; the draw is made only when depth > 2
SideRootBranches(f, s) ==
    /\ f.depth > 2
    /\ GenRange(Raw(s, 1), 0, 1000) < 300
    /\ f.depth < 15

SideDecisionDraws(f) == IF f.depth > 2 THEN 1 ELSE 0

\* the side-root call made when the decision is taken
SideRoot(f, s) ==
    LET branch_angle == GenRange(Raw(s, 2), 30, 90)
        branch_direction == Bent(f.dir, branch_angle * 1000, GenRange(Raw(s, 4), -1000, 1000))
    IN [ rng    |-> Advance(s, 4),
         frames |-> << RootFrame(f.index, branch_direction, f.depth + 1,
                                 (f.segment_length * 8) \div 10,
                                 (f.current_radius * 6) \div 10, TRUE) >> ]

---------------------------------------------------------------------------
(* Root engine of tree-engine: RootSystem::generate *)

RECURSIVE RootSegments(_, _, _)
\* iterations segment..2 of the loop
RootSegments(cs_list, segment, p) ==
    IF segment >= 3 THEN cs_list
    ELSE LET base_rings == cs_list[1].component_rings
             taper_factor == 1000 - segment * 100
             root_rings == [ i \in 1..Len(base_rings) |->
                               [ radius    |-> (base_rings[i].radius * taper_factor) \div 1000,
                                 ring_type |-> "MainTrunk",
                                 g_src     |-> i - 1 ] ]
             root_center == << cs_list[1].center[1],
                               cs_list[1].center[2] - (segment + 1) * p.root_segment_length >>
             root_index == Len(cs_list)
             attach == IF segment = 0 THEN 0 ELSE root_index - 1
         IN RootSegments(PushChild(cs_list, attach,
                                   CrossSection(root_center, 0, root_rings, attach,
                                                "engine_root")),
                         segment + 1, p)

---------------------------------------------------------------------------
(* Twig engine *)

\* min(density * 0.3, 1.0), permille
DensityChance(p) == Min(p.twig_density * 30, 1000)

\* ring.radius <= attachment_threshold && draw < density_chance
ShouldHaveTwigs(ring, s, p) ==
    ring.radius <= 500 /\ GenUnit(Raw(s, 1)) < DensityChance(p)

\* the medium-branch gate without its upper radius limit
IsMediumBranchNoUpperLimit(ring, s, p) ==
    ring.radius > 500 /\ GenUnit(Raw(s, 1)) < p.twig_density * 10

\* attachment_threshold < ring.radius <= 2 * attachment_threshold && draw < density * 0.1
IsMediumBranchWithRandomTwigs(ring, s, p) ==
    ring.radius > 500 /\ ring.radius <= 1000 /\ GenUnit(Raw(s, 1)) < p.twig_density * 10

\* draws the two gating conditions consume (the && short-circuits)
GateDraws(ring) == IF ring.radius <= 1000 THEN 1 ELSE 0

\* (density * 2 * 0.5 ..= density * 2 * 1.5) as u32, then max(1).min(12)
TwigCount(s, p) ==
    Min(Max(GenRange(Raw(s, 1), p.twig_density, 3 * p.twig_density) \div 10, 1), 12)

TwigType(branch_radius) ==
    IF branch_radius < 200 THEN "LeafCluster"
    ELSE IF branch_radius < 400 THEN "BranchTip"
    ELSE "SmallBranch"

\* generate_twigs_at_position: one count draw, then three draws per twig
TwigsAtPosition(i, c, ring, s, p) ==
    [ k \in 1..TwigCount(s, p) |->
        [ position  |-> c.center,
          scale     |-> GenRange(Raw(s, 1 + 3 * k), p.twig_scale \div 2,
                                 (p.twig_scale * 3) \div 2),
          twig_type |-> TwigType(ring.radius),
          g_index   |-> i,
          g_radius  |-> ring.radius,
          g_stale   |-> FALSE ] ]

\* the twigs and generator position after ring j of cross-section i
ScanRing(c, i, j, st, p) ==
    LET ring == c.component_rings[j]
        gated == Advance(st.rng, GateDraws(ring))
    IN IF ring.ring_type = "Root" THEN st
       ELSE IF \/ ShouldHaveTwigs(ring, st.rng, p)
               \/ IsMediumBranchWithRandomTwigs(ring, st.rng, p)
       THEN [ twigs |-> st.twigs \o TwigsAtPosition(i, c, ring, gated, p),
              rng   |-> Advance(gated, 1 + 3 * TwigCount(gated, p)) ]
       ELSE [ st EXCEPT !.rng = gated ]

RECURSIVE ScanRings(_, _, _, _, _)
\* the inner loop over the rings of cross-section i, from ring j
ScanRings(c, i, j, st, p) ==
    IF j > Len(c.component_rings) THEN st
    ELSE CHOOSE r \in { ScanRings(c, i, j + 1, after, p) :
                           after \in { ScanRing(c, i, j, st, p) } } : TRUE

RECURSIVE ScanTwigs(_, _, _, _, _)
\* the outer loop over cross-sections lo..hi in index order (the range is
\* halved to keep the evaluation shallow)
ScanTwigs(cs_list, lo, hi, st, p) ==
    IF lo > hi THEN st
    ELSE IF lo = hi THEN ScanRings(cs_list[lo + 1], lo, 1, st, p)
    ELSE CHOOSE r \in { ScanTwigs(cs_list, (lo + hi) \div 2 + 1, hi, left, p) :
                           left \in { ScanTwigs(cs_list, lo, (lo + hi) \div 2, st, p) } } : TRUE

---------------------------------------------------------------------------
(* Mesh: TreeStructure::generate_mesh *)

NoMesh == [vertices |-> 0, indices |-> <<>>, g_bands |-> <<>>, g_resolution |-> -1]

\* no read accessor has been called yet
NoResult == [op |-> "none", index |-> 0, value |-> <<>>]

\* number of perimeter points of generate_unified_geometry
PointCount(c, resolution) == IF c.component_rings = <<>> THEN 0 ELSE resolution

\* the quad indices without the wrap-around of the last quad
QuadIndicesNoWrap(base, i, n) ==
    LET next_i == i + 1
        p1 == base + i * 2
        p2 == base + i * 2 + 1
        p3 == base + next_i * 2 + 1
        p4 == base + next_i * 2
    IN << p1, p2, p3, p1, p3, p4 >>

\* the six indices of quad i of a band of n points starting at vertex base
QuadIndices(base, i, n) ==
    LET next_i == (i + 1) % n
        p1 == base + i * 2
        p2 == base + i * 2 + 1
        p3 == base + next_i * 2 + 1
        p4 == base + next_i * 2
    IN << p1, p2, p3, p1, p3, p4 >>

RECURSIVE BandIndices(_, _, _)
BandIndices(base, i, n) ==
    IF i >= n THEN <<>> ELSE QuadIndices(base, i, n) \o BandIndices(base, i + 1, n)

\* connect_cross_section_perimeters_with_depth
ConnectCrossSectionPerimeters(m, parent, child, resolution) ==
    LET base_vertex_idx == m.vertices
        n == Min(PointCount(parent, resolution), PointCount(child, resolution))
    IN [ m EXCEPT !.vertices = @ + 2 * n,
                  !.indices  = @ \o BandIndices(base_vertex_idx, 0, n),
                  !.g_bands  = Append(@, [base |-> base_vertex_idx, n |-> n,
                                          first |-> Len(m.indices)]) ]

\* the inner loop connecting the first child only
ConnectFirstChild(cs_list, cs_idx, k, resolution, m) ==
    IF cs_list[cs_idx + 1].children_indices = <<>> THEN m
    ELSE ConnectCrossSectionPerimeters(
             m, cs_list[cs_idx + 1],
             cs_list[cs_list[cs_idx + 1].children_indices[1] + 1], resolution)

RECURSIVE ConnectChildren(_, _, _, _, _)
\* the inner loop over the children of cross-section cs_idx, from child k
ConnectChildren(cs_list, cs_idx, k, resolution, m) ==
    IF k > Len(cs_list[cs_idx + 1].children_indices) THEN m
    ELSE CHOOSE r \in { ConnectChildren(cs_list, cs_idx, k + 1, resolution, after) :
                           after \in { ConnectCrossSectionPerimeters(
                                           m, cs_list[cs_idx + 1],
                                           cs_list[cs_list[cs_idx + 1].children_indices[k] + 1],
                                           resolution) } } : TRUE

RECURSIVE ConnectAll(_, _, _, _, _)
\* the outer loop over cross-sections lo..hi in index order (the range is
\* halved to keep the evaluation shallow)
ConnectAll(cs_list, lo, hi, resolution, m) ==
    IF lo > hi THEN m
    ELSE IF lo = hi THEN ConnectChildren(cs_list, lo, 1, resolution, m)
    ELSE CHOOSE r \in { ConnectAll(cs_list, (lo + hi) \div 2 + 1, hi, resolution, left) :
                           left \in { ConnectAll(cs_list, lo, (lo + hi) \div 2,
                                                  resolution, m) } } : TRUE

GenerateMeshOf(cs_list, resolution) ==
    ConnectAll(cs_list, 0, Len(cs_list) - 1, resolution,
               [NoMesh EXCEPT !.g_resolution = resolution])

---------------------------------------------------------------------------
(* One generation pass (regenerate_tree / generate_tree) as a step machine  *)
(* over the record m of the fields a pass reads and writes.                 *)

\* the object between construction of its fields and its first pass
FreshMachine ==
    [ cross_sections |-> <<>>, twigs |-> <<>>, rng |-> 0, stack |-> <<>>,
      pc |-> "regen" ]

Stale(tw) == [ k \in 1..Len(tw) |-> [tw[k] EXCEPT !.g_stale = TRUE] ]

\* the first call with one segment already counted since the last branch
InitialFrameBranchReady == GrowFrame(0, 0, 0, 1, 0)

\* the first call of generate_coordinated_recursive: root cross-section,
\* direction up, depth 0, both segment counters 0
InitialFrame == GrowFrame(0, 0, 0, 0, 0)

\* tree-rs: cross_sections.clear(), seed the generator, push the root
\* cross-section, make the first call; the twig list is left alone.
\* tree-engine: a new TreeStructure, TrunkSystem::generate, generate_branches.
StartOp(e, p, m) ==
    [ cross_sections |-> << CrossSection(<<0, 0>>, 0, GenerateTrunkRings(p), None, "base") >>,
      twigs          |-> IF e = "tree_rs" THEN Stale(m.twigs) ELSE <<>>,
      rng            |-> SeedFromU64(p.seed),
      stack          |-> << InitialFrame >>,
      pc             |-> "grow" ]

\* a call that returns at one of its hard stops
ReturnOp(m) ==
    [ m EXCEPT !.stack = Tail(@) ]

\* a call that creates cross-sections and makes further calls
CallOp(m, r) ==
    [ m EXCEPT !.cross_sections = r.cross_sections,
               !.rng   = r.rng,
               !.stack = r.frames \o Tail(@) ]

GrowContinueOp(e, p, m) ==
    CallOp(m, Continue(m.cross_sections, Head(m.stack), m.rng, e, p))

GrowBranchOp(e, p, m) ==
    CallOp(m, CreateCoordinatedBranches(m.cross_sections, Head(m.stack), m.rng, e, p))

\* tree-rs, roots enabled: generate_root_system is entered
StartRootsOp(m) == [ m EXCEPT !.pc = "roots", !.stack = << LoopFrame(0) >> ]

\* roots disabled, generate_root_system entered all the same
SkipRootsIgnored(m) == [ m EXCEPT !.pc = "roots", !.stack = << LoopFrame(0) >> ]

\* tree-rs, roots disabled
SkipRootsOp(m) == [ m EXCEPT !.pc = "twigs" ]

\* tree-engine: RootSystem::generate, whole
EngineRootsOp(p, m) ==
    [ m EXCEPT !.pc = "twigs",
               !.cross_sections = IF p.root_enable THEN RootSegments(@, 0, p) ELSE @ ]

RootSpawnOp(p, m) ==
    LET r == RootSpawn(m.cross_sections, Head(m.stack).index, p)
    IN [ m EXCEPT !.cross_sections = r.cross_sections,
                  !.stack = r.frames \o Tail(@) ]

RootLoopDoneOp(m) == [ m EXCEPT !.stack = Tail(@) ]

RootGrowOp(p, m) ==
    CallOp(m, RootGrowth(m.cross_sections, Head(m.stack), m.rng, p))

\* the side-root decision is not taken
SideSkipOp(m) ==
    [ m EXCEPT !.stack = Tail(@),
               !.rng   = Advance(@, SideDecisionDraws(Head(m.stack))) ]

\* the side-root decision is taken
SideBranchOp(m) ==
    LET r == SideRoot(Head(m.stack), m.rng)
    IN [ m EXCEPT !.stack = r.frames \o Tail(@), !.rng = r.rng ]

FinishRootsOp(m) == [ m EXCEPT !.pc = "twigs" ]

\* the twig block of the pass; tree-rs clears the list only inside it
TwigsOp(p, m) ==
    LET r == ScanTwigs(m.cross_sections, 0, Len(m.cross_sections) - 1,
                       [twigs |-> <<>>, rng |-> m.rng], p)
    IN IF p.twig_enable
       THEN [ m EXCEPT !.twigs = r.twigs, !.rng = r.rng, !.pc = "idle" ]
       ELSE [ m EXCEPT !.pc = "idle" ]

\* which step of the pass is next in m
StepKind(e, p, m) ==
    IF m.pc = "regen" THEN "Start"
    ELSE IF m.pc = "grow" /\ m.stack # <<>>
         THEN IF GrowStops(m.cross_sections, Head(m.stack), e, p) THEN "GrowStop"
              ELSE IF ShouldBranch(m.cross_sections, Head(m.stack), m.rng, p) THEN "GrowBranch"
              ELSE "GrowContinue"
    ELSE IF m.pc = "grow"
         THEN IF e = "tree_engine" THEN "EngineRoots"
              ELSE IF p.root_enable THEN "StartRoots" ELSE "SkipRoots"
    ELSE IF m.pc = "roots" /\ m.stack # <<>>
         THEN IF Head(m.stack).kind = "loop"
              THEN IF Head(m.stack).index < p.root_density THEN "RootSpawn" ELSE "RootLoopDone"
              ELSE IF Head(m.stack).kind = "root"
              THEN IF RootStops(m.cross_sections, Head(m.stack), p) THEN "RootStop"
                   ELSE "RootGrow"
              ELSE IF SideRootBranches(Head(m.stack), m.rng) THEN "SideBranch" ELSE "SideSkip"
    ELSE IF m.pc = "roots" THEN "FinishRoots"
    ELSE IF m.pc = "twigs" THEN "Twigs"
    ELSE "Idle"

PassStep(e, p, m) ==
    CASE StepKind(e, p, m) = "Start"        -> StartOp(e, p, m)
      [] StepKind(e, p, m) = "GrowStop"     -> ReturnOp(m)
      [] StepKind(e, p, m) = "GrowContinue" -> GrowContinueOp(e, p, m)
      [] StepKind(e, p, m) = "GrowBranch"   -> GrowBranchOp(e, p, m)
      [] StepKind(e, p, m) = "EngineRoots"  -> EngineRootsOp(p, m)
      [] StepKind(e, p, m) = "StartRoots"   -> StartRootsOp(m)
      [] StepKind(e, p, m) = "SkipRoots"    -> SkipRootsOp(m)
      [] StepKind(e, p, m) = "RootSpawn"    -> RootSpawnOp(p, m)
      [] StepKind(e, p, m) = "RootLoopDone" -> RootLoopDoneOp(m)
      [] StepKind(e, p, m) = "RootStop"     -> ReturnOp(m)
      [] StepKind(e, p, m) = "RootGrow"     -> RootGrowOp(p, m)
      [] StepKind(e, p, m) = "SideBranch"   -> SideBranchOp(m)
      [] StepKind(e, p, m) = "SideSkip"     -> SideSkipOp(m)
      [] StepKind(e, p, m) = "FinishRoots"  -> FinishRootsOp(m)
      [] StepKind(e, p, m) = "Twigs"        -> TwigsOp(p, m)
      [] OTHER                              -> m

RECURSIVE RunSteps(_, _, _, _)
\* n consecutive steps of the pass (n is halved to keep the evaluation
\* shallow); a finished pass takes no further step
RunSteps(e, p, m, n) ==
    IF n = 0 \/ m.pc = "idle" THEN m
    ELSE IF n = 1 THEN PassStep(e, p, m)
    ELSE CHOOSE r \in { RunSteps(e, p, half, n - n \div 2) :
                           half \in { RunSteps(e, p, m, n \div 2) } } : TRUE

\* the pass run to its end, provided it ends within MaxPassSteps steps
RunToIdle(e, p, m) == RunSteps(e, p, m, MaxPassSteps)

\* TreeObject::new with the given field values: the tree of a fresh object
FreshTree(e, p) == RunToIdle(e, p, FreshMachine)

---------------------------------------------------------------------------
(* The TreeObject *)

Cur ==
    [ cross_sections |-> cross_sections, twigs |-> twigs, rng |-> rng,
      stack |-> stack, pc |-> pc ]

Install(m) ==
    /\ cross_sections' = m.cross_sections
    /\ twigs' = m.twigs
    /\ rng' = m.rng
    /\ stack' = m.stack
    /\ pc' = m.pc

Next_(kind) == StepKind(engine, params, Cur) = kind

Init ==
    /\ engine \in Engines
    /\ \E seed \in Seeds, trunk_height \in TrunkHeights, butressing \in Butressings,
          prof \in Profiles, max_depth \in 1..MaxDepthParam :
          params = [ Configured(NewParams(engine, seed, trunk_height, butressing), prof)
                       EXCEPT !.max_depth = ClampMaxDepth(max_depth) ]
    /\ cross_sections = FreshMachine.cross_sections
    /\ twigs = FreshMachine.twigs
    /\ rng = FreshMachine.rng
    /\ stack = FreshMachine.stack
    /\ pc = FreshMachine.pc
    /\ mesh = NoMesh
    /\ result = NoResult

StartRegenerate ==
    /\ Next_("Start")
    /\ Install(StartOp(engine, params, Cur))
    /\ UNCHANGED <<engine, params, mesh, result>>

GrowStop ==
    /\ Next_("GrowStop")
    /\ Install(ReturnOp(Cur))
    /\ UNCHANGED <<engine, params, mesh, result>>

\* a build with overflow checks: the growth step panics at the sum of the
\* segment cap and the pass is abandoned where it stands
GrowPanic ==
    /\ pc = "grow"
    /\ stack # <<>>
    /\ ~DepthStop(Head(stack), params)
    /\ Head(stack).depth <= 2
    /\ MinSegmentsPlusTen(TrunkHeightArg(engine, params), params.segment_length).overflow
    /\ pc' = "aborted"
    /\ UNCHANGED <<engine, params, cross_sections, twigs, rng, stack, mesh, result>>

GrowContinue ==
    /\ Next_("GrowContinue")
    /\ Install(GrowContinueOp(engine, params, Cur))
    /\ UNCHANGED <<engine, params, mesh, result>>

GrowBranch ==
    /\ Next_("GrowBranch")
    /\ Install(GrowBranchOp(engine, params, Cur))
    /\ UNCHANGED <<engine, params, mesh, result>>

EngineRoots ==
    /\ Next_("EngineRoots")
    /\ Install(EngineRootsOp(params, Cur))
    /\ UNCHANGED <<engine, params, mesh, result>>

StartRoots ==
    /\ Next_("StartRoots")
    /\ Install(StartRootsOp(Cur))
    /\ UNCHANGED <<engine, params, mesh, result>>

SkipRoots ==
    /\ Next_("SkipRoots")
    /\ Install(SkipRootsOp(Cur))
    /\ UNCHANGED <<engine, params, mesh, result>>

RootSpawnStep ==
    /\ Next_("RootSpawn")
    /\ Install(RootSpawnOp(params, Cur))
    /\ UNCHANGED <<engine, params, mesh, result>>

RootLoopDone ==
    /\ Next_("RootLoopDone")
    /\ Install(RootLoopDoneOp(Cur))
    /\ UNCHANGED <<engine, params, mesh, result>>

RootStop ==
    /\ Next_("RootStop")
    /\ Install(ReturnOp(Cur))
    /\ UNCHANGED <<engine, params, mesh, result>>

RootGrow ==
    /\ Next_("RootGrow")
    /\ Install(RootGrowOp(params, Cur))
    /\ UNCHANGED <<engine, params, mesh, result>>

SideBranch ==
    /\ Next_("SideBranch")
    /\ Install(SideBranchOp(Cur))
    /\ UNCHANGED <<engine, params, mesh, result>>

SideSkip ==
    /\ Next_("SideSkip")
    /\ Install(SideSkipOp(Cur))
    /\ UNCHANGED <<engine, params, mesh, result>>

FinishRoots ==
    /\ Next_("FinishRoots")
    /\ Install(FinishRootsOp(Cur))
    /\ UNCHANGED <<engine, params, mesh, result>>

PlaceTwigs ==
    /\ Next_("Twigs")
    /\ Install(TwigsOp(params, Cur))
    /\ UNCHANGED <<engine, params, mesh, result>>

\* a setter: store the value, then regenerate_tree()
Setter(new_params) ==
    /\ pc = "idle"
    /\ params' = new_params
    /\ pc' = "regen"
    /\ mesh' = NoMesh
    /\ UNCHANGED <<engine, cross_sections, twigs, rng, stack, result>>

SetTwigEnable == \E enable \in BOOLEAN : Setter([params EXCEPT !.twig_enable = enable])

SetRootEnable == \E enable \in BOOLEAN : Setter([params EXCEPT !.root_enable = enable])

GenerateTreeMesh ==
    /\ pc = "idle"
    /\ \E resolution \in 0..MaxResolution :
          mesh' = GenerateMeshOf(cross_sections, resolution)
    /\ UNCHANGED <<engine, params, cross_sections, twigs, rng, stack, pc, result>>

\* Option values: None and Some(v)
Absent == <<>>
Present(v) == <<v>>

\* slice::get taking the index as a position counted from 1
GetFromOne(list, index) ==
    IF index >= 1 /\ index <= Len(list) THEN Present(list[index]) ELSE Absent

\* slice::get
Get(list, index) ==
    IF index < Len(list) THEN Present(list[index + 1]) ELSE Absent

rings_count(cs_list) == Len(cs_list)

ring_center(cs_list, index) ==
    LET got == Get(cs_list, index)
    IN IF got = Absent THEN Absent ELSE Present(got[1].center)

ring_radius(cs_list, index) ==
    LET got == Get(cs_list, index)
    IN IF got = Absent THEN Absent
       ELSE IF Get(got[1].component_rings, 0) = Absent THEN Absent
       ELSE Present(Get(got[1].component_rings, 0)[1].radius)

twigs_count(twig_list) == Len(twig_list)

twig_position(twig_list, index) ==
    LET got == Get(twig_list, index)
    IN IF got = Absent THEN Absent ELSE Present(got[1].position)

\* twig_orientation_x/y/z/w: the quaternion is not part of the model's twig,
\* the result names the component read and the twig it belongs to
twig_orientation(twig_list, component, index) ==
    LET got == Get(twig_list, index)
    IN IF got = Absent THEN Absent ELSE Present(<<component, index>>)

twig_scale(twig_list, index) ==
    LET got == Get(twig_list, index)
    IN IF got = Absent THEN Absent ELSE Present(got[1].scale)

twig_type(twig_list, index) ==
    LET got == Get(twig_list, index)
    IN IF got = Absent THEN Absent ELSE Present(got[1].twig_type)

\* the indices handed to an accessor of a list of count elements: the ends
\* of the list, its middle, and the first indices past it
AccessIndices(count) ==
    { i \in {0, count \div 2, count - 1, count, count + MaxIndexPast} : i >= 0 }

\* a read accessor: &self, returns its value
Read(op, index, value) ==
    /\ pc = "idle"
    /\ result' = [ op |-> op, index |-> index, value |-> value ]
    /\ UNCHANGED <<engine, params, cross_sections, twigs, rng, stack, pc, mesh>>

RingCenter ==
    \E index \in AccessIndices(rings_count(cross_sections)) :
        Read("ring_center", index, ring_center(cross_sections, index))

RingRadius ==
    \E index \in AccessIndices(rings_count(cross_sections)) :
        Read("ring_radius", index, ring_radius(cross_sections, index))

TwigPosition ==
    \E index \in AccessIndices(twigs_count(twigs)) :
        Read("twig_position", index, twig_position(twigs, index))

\* twig_orientation_x, twig_orientation_y, twig_orientation_z, twig_orientation_w
TwigOrientation ==
    \E component \in {"x", "y", "z", "w"}, index \in AccessIndices(twigs_count(twigs)) :
        Read("twig_orientation", index, twig_orientation(twigs, component, index))

TwigScale ==
    \E index \in AccessIndices(twigs_count(twigs)) :
        Read("twig_scale", index, twig_scale(twigs, index))

TwigTypeName ==
    \E index \in AccessIndices(twigs_count(twigs)) :
        Read("twig_type", index, twig_type(twigs, index))

Next ==
    \/ StartRegenerate
    \/ GrowStop
    \/ GrowContinue
    \/ GrowBranch
    \/ EngineRoots
    \/ StartRoots
    \/ SkipRoots
    \/ RootSpawnStep
    \/ RootLoopDone
    \/ RootStop
    \/ RootGrow
    \/ SideBranch
    \/ SideSkip
    \/ FinishRoots
    \/ PlaceTwigs
    \/ SetTwigEnable
    \/ SetRootEnable
    \/ GenerateTreeMesh

Spec == Init /\ [][Next]_vars

---------------------------------------------------------------------------
(* One generation pass on its own: the constructor's call of               *)
(* regenerate_tree, for the parameter sets of Init and for a tree-rs       *)
(* object with long roots.  A pass is straight-line code, so each of its   *)
(* steps is taken once it is enabled.                                      *)

PassInit ==
    /\ engine \in Engines
    /\ \E seed \in Seeds, trunk_height \in TrunkHeights, butressing \in Butressings,
          prof \in Profiles \cup {DeepRootProfile}, max_depth \in {1, MaxDepthParam},
          root_enable \in BOOLEAN :
          /\ prof = DeepRootProfile =>
                engine = "tree_rs" /\ butressing = 5 /\ max_depth = 1 /\ root_enable
          /\ ~root_enable => max_depth = 1
          /\ params = [ Configured(NewParams(engine, seed, trunk_height, butressing), prof)
                         EXCEPT !.max_depth = ClampMaxDepth(max_depth),
                                !.root_enable = root_enable ]
    /\ cross_sections = FreshMachine.cross_sections
    /\ twigs = FreshMachine.twigs
    /\ rng = FreshMachine.rng
    /\ stack = FreshMachine.stack
    /\ pc = FreshMachine.pc
    /\ mesh = NoMesh
    /\ result = NoResult

PassNext ==
    \/ StartRegenerate
    \/ GrowStop
    \/ GrowContinue
    \/ GrowBranch
    \/ EngineRoots
    \/ StartRoots
    \/ SkipRoots
    \/ RootSpawnStep
    \/ RootLoopDone
    \/ RootStop
    \/ RootGrow
    \/ SideBranch
    \/ SideSkip
    \/ FinishRoots
    \/ PlaceTwigs

PassSpec == PassInit /\ [][PassNext]_vars /\ WF_vars(PassNext)

---------------------------------------------------------------------------
(* Properties *)

Idle == pc = "idle"

CsIndices == 0..(Len(cross_sections) - 1)

Cs(i) == cross_sections[i + 1]

RootOrigins == {"root_start", "root_step", "side_root", "engine_root"}

IsRootCs(c) == c.g_origin \in RootOrigins

\* C1 as stated: after a full generation pass no cross-section, whether the
\* branch engine or the root engine made it, has depth >= max_depth.
C1_AllDepthsBelowMaxDepth ==
    Idle => \A i \in CsIndices : Cs(i).depth < params.max_depth

\* C1 amended: after a full generation pass every cross-section made by the
\* trunk and branch engine has depth < max_depth; the root cross-sections of
\* tree-rs have a depth between 1 and 26 whatever max_depth is, and the root
\* cross-sections of tree-engine have depth 0.
C1_BranchDepthsBelowMaxDepth ==
    Idle => \A i \in CsIndices :
                IF IsRootCs(Cs(i))
                THEN IF engine = "tree_rs" THEN Cs(i).depth \in 1..26 ELSE Cs(i).depth = 0
                ELSE Cs(i).depth < params.max_depth

\* a finished pass with a branch at the deepest level max_depth allows and a
\* root cross-section at the deepest level the root recursion allows
C1_Witness ==
    /\ Idle
    /\ \E i \in CsIndices : ~IsRootCs(Cs(i)) /\ Cs(i).depth = params.max_depth - 1
                               /\ Cs(i).depth >= 1
    /\ \E i \in CsIndices : IsRootCs(Cs(i)) /\ Cs(i).depth >= params.max_depth

\* C2: generation always halts.  Every pending call of the branch recursion
\* has depth < max_depth or is about to stop, and a per-depth segment count
\* within the cap of its depth; every pending call of the root recursion has
\* depth at most 26; and every pass reaches its end.
FrameWithinCaps(f) ==
    IF f.kind = "grow"
    THEN /\ f.depth <= params.max_depth
         /\ f.segments_at_current_depth <=
                MaxSegmentsAtDepth(f.depth, TrunkHeightArg(engine, params),
                                   params.segment_length)
    ELSE f.depth <= 26

C2_AlwaysHalts ==
    /\ [](\A k \in 1..Len(stack) : FrameWithinCaps(stack[k]))
    /\ <>Idle

\* a finished pass in which a lineage of the branch recursion ran into the
\* segment cap and a lineage of the root recursion ran into the depth limit
C2_Witness ==
    /\ Idle
    /\ \E i \in CsIndices : Cs(i).g_origin = "root_step" /\ Cs(i).depth = 26
    /\ Cardinality({ i \in CsIndices : Cs(i).g_origin = "continuation"
                                         /\ Cs(i).depth = 0 }) >= 20

Children(i) == Cs(i).children_indices

ChildSet(i) == { Children(i)[k] : k \in 1..Len(Children(i)) }

\* C3: in every reachable state every stored child index is greater than the
\* index of the cross-section that stores it and is a valid index of the
\* list; within a pass the list only grows, a cross-section already in it
\* changing by nothing but children appended to its children list.
ForwardReferences ==
    \A i \in CsIndices : \A c \in ChildSet(i) : c > i /\ c < Len(cross_sections)

AppendOnly ==
    pc # "regen" =>
        /\ Len(cross_sections') >= Len(cross_sections)
        /\ \A i \in 1..Len(cross_sections) :
              /\ cross_sections'[i] =
                    [cross_sections[i] EXCEPT
                        !.children_indices = cross_sections'[i].children_indices]
              /\ Len(cross_sections'[i].children_indices)
                    >= Len(cross_sections[i].children_indices)
              /\ SubSeq(cross_sections'[i].children_indices, 1,
                        Len(cross_sections[i].children_indices))
                    = cross_sections[i].children_indices

C3_ChildIndicesGreater == []ForwardReferences /\ [][AppendOnly]_vars

\* a finished pass whose list holds a continuation, both cross-sections of a
\* branch point and roots
C3_Witness ==
    /\ Idle
    /\ \E i \in CsIndices : Cs(i).g_origin = "fork_branch" /\ Children(i) # <<>>
    /\ \E i \in CsIndices : IsRootCs(Cs(i)) /\ Children(i) # <<>>

IsBranchPoint(i) == \E c \in ChildSet(i) : Cs(c).g_origin = "fork_trunk"

HasSideRoot(i) == \E c \in ChildSet(i) : Cs(c).g_origin = "side_root"

RootChildren(i) == { c \in ChildSet(i) : IsRootCs(Cs(c)) }

\* C4 as stated: after a full pass every cross-section, the base included,
\* has at most 2 children, and 2 only if it is a branch point.
C4_AtMostTwoChildren ==
    Idle => \A i \in CsIndices :
                /\ Len(Children(i)) <= 2
                /\ Len(Children(i)) = 2 => IsBranchPoint(i)

\* C4 amended: after a full pass every cross-section other than the base has
\* at most 2 children; one made by the branch engine has 2 only if it is a
\* branch point, and a root cross-section has 2 only if a side root starts
\* at it.  The base cross-section has at most one trunk child, plus one
\* child per root: root_density children in tree-rs and one in tree-engine
\* when roots are enabled.
C4_ChildCounts ==
    Idle => \A i \in CsIndices :
                IF i = 0
                THEN /\ Cardinality(ChildSet(0) \ RootChildren(0)) <= 1
                     /\ Cardinality(RootChildren(0)) =
                            IF ~params.root_enable THEN 0
                            ELSE IF engine = "tree_rs" THEN params.root_density ELSE 1
                     /\ Len(Children(0)) = Cardinality(ChildSet(0))
                ELSE /\ Len(Children(i)) <= 2
                     /\ Len(Children(i)) = 2 =>
                            IF IsRootCs(Cs(i)) THEN HasSideRoot(i) ELSE IsBranchPoint(i)

\* a finished pass with a branch point, a root cross-section carrying a side
\* root, and a base cross-section with more than two children
C4_Witness ==
    /\ Idle
    /\ Len(Children(0)) > 2
    /\ \E i \in CsIndices : i # 0 /\ IsBranchPoint(i) /\ Len(Children(i)) = 2
    /\ \E i \in CsIndices : IsRootCs(Cs(i)) /\ HasSideRoot(i) /\ Len(Children(i)) = 2

\* C5: on every parent->child edge every ring of the child has a radius no
\* larger than the radius of the parent ring it was derived from.
C5_ChildRadiusNeverGrows ==
    \A i \in CsIndices : \A c \in ChildSet(i) :
        \A r \in 1..Len(Cs(c).component_rings) :
            /\ Cs(c).component_rings[r].g_src + 1 \in 1..Len(Cs(i).component_rings)
            /\ Cs(c).component_rings[r].radius
                  <= Cs(i).component_rings[Cs(c).component_rings[r].g_src + 1].radius

\* a finished pass with every kind of edge: continuation, both sides of a
\* branch point, first root cross-section, root continuation and side root
C5_Witness ==
    /\ Idle
    /\ \A o \in {"continuation", "fork_trunk", "fork_branch", "root_start",
                   "root_step", "side_root"} :
           \E i \in CsIndices : Cs(i).g_origin = o

\* the fields of the twigs the source keeps
TwigData(tw) ==
    [ k \in 1..Len(tw) |->
        [ position |-> tw[k].position, scale |-> tw[k].scale,
          twig_type |-> tw[k].twig_type ] ]

\* C6 as stated: determinism.  The cross-section list and the twig list a
\* pass leaves behind are those of any other pass run with the same seed and
\* parameter values, here the pass of an object that has not generated
\* before; nothing but the seed and the parameters influences the result.
C6_SameSeedSameTree ==
    [][pc = "twigs" =>
          \E fresh \in { FreshTree(engine, params) } :
              /\ cross_sections' = fresh.cross_sections
              /\ TwigData(twigs') = TwigData(fresh.twigs)]_vars

\* C7 as stated: after any sequence of setter calls the cross-section list
\* and the twig list equal those of a freshly constructed object given the
\* same final parameter values; with twigs disabled twigs_count() is 0, and
\* no twig of an earlier pass survives a regeneration.
C7_RegenerationDiscardsPreviousTree ==
    Idle =>
        /\ \E fresh \in { FreshTree(engine, params) } :
              /\ cross_sections = fresh.cross_sections
              /\ TwigData(twigs) = TwigData(fresh.twigs)
        /\ ~params.twig_enable => Len(twigs) = 0
        /\ \A k \in 1..Len(twigs) : ~twigs[k].g_stale

---------------------------------------------------------------------------
(* The ring generator on its own: constructor arguments and trunk sizes    *)
(* drawn from their ranges, and the first statement of the pass, which     *)
(* calls generate_trunk_rings.                                             *)

RingInit ==
    /\ engine \in Engines
    /\ \E butressing \in 0..MaxButressing, trunk_size \in 0..MaxTrunkSizeArg :
          params = [ NewParams(engine, 0, 100, butressing)
                       EXCEPT !.trunk_size = ClampTrunkSize(trunk_size) ]
    /\ cross_sections = FreshMachine.cross_sections
    /\ twigs = FreshMachine.twigs
    /\ rng = FreshMachine.rng
    /\ stack = FreshMachine.stack
    /\ pc = FreshMachine.pc
    /\ mesh = NoMesh
    /\ result = NoResult

RingNext == StartRegenerate

RingSpec == RingInit /\ [][RingNext]_vars

---------------------------------------------------------------------------

HasMesh == mesh.g_resolution >= 0

BandOk(k) ==
    LET b == mesh.g_bands[k]
        next_base == IF k = Len(mesh.g_bands) THEN mesh.vertices
                     ELSE mesh.g_bands[k + 1].base
        next_first == IF k = Len(mesh.g_bands) THEN Len(mesh.indices)
                      ELSE mesh.g_bands[k + 1].first
    IN /\ next_base = b.base + 2 * b.n
       /\ next_first = b.first + 6 * b.n
       /\ \A j \in (b.first + 1)..(b.first + 6 * b.n) :
              mesh.indices[j] >= b.base /\ mesh.indices[j] < b.base + 2 * b.n

\* C8: the mesh generate_mesh returns has an index count that is a multiple
\* of 3 and every index below the number of vertices; each band of n points
\* appends exactly 2n vertices and 6n indices, all referring to the band's
\* own vertices.
C8_MeshIndicesInRange ==
    HasMesh =>
        /\ Len(mesh.indices) % 3 = 0
        /\ \A j \in 1..Len(mesh.indices) :
              mesh.indices[j] >= 0 /\ mesh.indices[j] < mesh.vertices
        /\ mesh.g_bands = <<>> => mesh.vertices = 0 /\ mesh.indices = <<>>
        /\ mesh.g_bands # <<>> => mesh.g_bands[1].base = 0 /\ mesh.g_bands[1].first = 0
        /\ \A k \in 1..Len(mesh.g_bands) : BandOk(k)

\* a mesh of several bands of more than one point each
C8_Witness ==
    /\ HasMesh
    /\ mesh.g_resolution >= 2
    /\ Len(mesh.g_bands) >= 3
    /\ \A k \in 1..Len(mesh.g_bands) : mesh.g_bands[k].n = mesh.g_resolution

\* the (parent, position) pairs whose stored child index is i
ParentSlots(i) ==
    { <<q, k>> \in CsIndices \X (1..Len(cross_sections)) :
          k <= Len(Children(q)) /\ Children(q)[k] = i }

\* C9: after generation the cross-section graph is a tree rooted at index
\* 0: every other cross-section is stored exactly once, in the children
\* list of exactly one cross-section, index 0 in none; and generate_mesh
\* makes exactly one connection per non-root cross-section.
C9_TreeRootedAtZero ==
    Idle =>
        /\ ParentSlots(0) = {}
        /\ \A i \in CsIndices \ {0} : Cardinality(ParentSlots(i)) = 1
        /\ HasMesh => Len(mesh.g_bands) = Len(cross_sections) - 1

\* a tree with a branch point and roots, and its mesh
C9_Witness ==
    /\ Idle
    /\ HasMesh
    /\ \E i \in CsIndices : IsBranchPoint(i)
    /\ \E i \in CsIndices : IsRootCs(Cs(i))
    /\ Len(mesh.g_bands) >= 5

\* C10: area conservation.  When generate_trunk_rings returns more than one
\* ring, all rings have the same radius r, and ring_count * r^2 equals
\* (0.5 * size)^2 up to the rounding of r to the radius grid.
C10_AreaConserved ==
    (cross_sections # <<>> /\ Len(Cs(0).component_rings) > 1) =>
        LET rings == Cs(0).component_rings
            r == rings[1].radius
            base_sq == (500 * params.trunk_size) * (500 * params.trunk_size)
        IN /\ \A k \in 1..Len(rings) : rings[k].radius = r
           /\ Len(rings) * r * r <= base_sq
           /\ base_sq < Len(rings) * (r + 1) * (r + 1)

\* rings generated for a buttressing value that gives more than two rings
\* whose radius is not a whole fraction of the base radius
C10_Witness ==
    /\ cross_sections # <<>>
    /\ Len(Cs(0).component_rings) >= 3
    /\ Len(Cs(0).component_rings) * Cs(0).component_rings[1].radius
           * Cs(0).component_rings[1].radius
         < (500 * params.trunk_size) * (500 * params.trunk_size)

---------------------------------------------------------------------------
(* The scenarios of the specification: objects configured with            *)
(* set_max_depth, set_split_height, set_segment_length, set_trunk_size,   *)
(* set_branch_frequency_range, set_max_branch_reach and set_root_enable   *)
(* before the pass that is followed.                                      *)

\* arguments of set_split_height: the ground, the constructor's 0.6 * height,
\* and a height far above anything the reach limit lets the tree grow to
SplitHeights == {0, 60, 99900}

SegmentLengths == {10, 50}

\* arguments of set_trunk_size: a trunk thin enough to taper into the twig
\* range, and the tree-rs default
TrunkSizes == {3, 30}

ScenarioInit ==
    /\ engine \in Engines
    /\ \E seed \in Seeds, max_depth \in {1, MaxDepthParam}, split_height \in SplitHeights,
          segment_length \in SegmentLengths, trunk_size \in TrunkSizes,
          frequency \in {<<1, 1>>, <<1, 3>>}, root_enable \in BOOLEAN,
          radius_taper \in {300, 800} :
          params = [ NewParams(engine, seed, 100, 10) EXCEPT
                       !.trunk_size           = ClampTrunkSize(trunk_size),
                       !.radius_taper         = ClampRadiusTaper(radius_taper),
                       !.max_depth            = ClampMaxDepth(max_depth),
                       !.split_height         = split_height,
                       !.segment_length       = ClampSegmentLength(segment_length),
                       !.branch_frequency_min = ClampFrequencyMin(frequency[1], frequency[2]),
                       !.branch_frequency_max = ClampFrequencyMax(frequency[1], frequency[2]),
                       !.max_branch_reach     = ClampMaxBranchReach(200),
                       !.root_enable          = root_enable ]
    /\ cross_sections = FreshMachine.cross_sections
    /\ twigs = FreshMachine.twigs
    /\ rng = FreshMachine.rng
    /\ stack = FreshMachine.stack
    /\ pc = FreshMachine.pc
    /\ mesh = NoMesh
    /\ result = NoResult

ScenarioSpec == ScenarioInit /\ [][PassNext]_vars

\* growth stops once the centre is farther than 1.5 * max_branch_reach from
\* the origin, and a segment is at most twice segment_length long
BranchingImpossible ==
    \/ params.max_depth = 1
    \/ params.split_height > (params.max_branch_reach * 3) \div 2 + 2 * params.segment_length

\* the cross-sections made by trunk and branch generation
TrunkCs == { i \in CsIndices : ~IsRootCs(Cs(i)) }

TrunkChildren(i) == { c \in ChildSet(i) : ~IsRootCs(Cs(c)) }

RECURSIVE ChainLength(_)
\* number of cross-sections on the path that follows the first trunk child
ChainLength(i) ==
    IF TrunkChildren(i) = {} THEN 1
    ELSE 1 + ChainLength(CHOOSE c \in TrunkChildren(i) : TRUE)

\* C11 as stated: when branching is impossible the finished tree is one root
\* cross-section followed by a single chain: exactly one cross-section has no
\* parent, none has 2 children, every depth is 0, and rings_count() is the
\* length of the chain.
C11_MinimalTrunkIsOneChain ==
    (Idle /\ BranchingImpossible) =>
        /\ Cardinality({ i \in CsIndices : Cs(i).parent_index = None }) = 1
        /\ \A i \in CsIndices : Len(Children(i)) < 2
        /\ \A i \in CsIndices : Cs(i).depth = 0
        /\ Len(cross_sections) = ChainLength(0)

\* C11, amended: when branching is impossible the cross-sections made by
\* trunk generation are one root cross-section followed by a single chain:
\* exactly one cross-section has no parent, none has 2 trunk children, every
\* trunk cross-section has depth 0 and lies on the chain; with roots
\* disabled nothing else is in the list and rings_count() is the length of
\* the chain.
C11_MinimalTrunkChain ==
    (Idle /\ BranchingImpossible) =>
        /\ Cardinality({ i \in CsIndices : Cs(i).parent_index = None }) = 1
        /\ \A i \in TrunkCs : Cardinality(TrunkChildren(i)) < 2
        /\ \A i \in TrunkCs : Cs(i).depth = 0
        /\ Cardinality(TrunkCs) = ChainLength(0)
        /\ ~params.root_enable =>
              /\ Len(cross_sections) = ChainLength(0)
              /\ \A i \in CsIndices : Len(Children(i)) < 2

\* a finished trunk of several segments under a split height out of reach,
\* at a max_depth that would allow branching
C11_Witness ==
    /\ Idle
    /\ params.max_depth > 1
    /\ BranchingImpossible
    /\ ~params.root_enable
    /\ Len(cross_sections) >= 5

\* the forced-single-branch scenario
ForcedBranch ==
    /\ params.max_depth = 3
    /\ params.branch_frequency_min = 1
    /\ params.branch_frequency_max = 1
    /\ params.split_height = 0

\* C12 as stated: in the forced-single-branch scenario the first
\* cross-section created after the root (index 1) has depth >= 1.
C12_FirstStepBranches ==
    (Idle /\ ForcedBranch /\ Len(cross_sections) > 1) => Cs(1).depth >= 1

\* C12, amended: in the forced-single-branch scenario the first growth step
\* is a continuation, so the cross-section at index 1 has depth 0 and is the
\* only trunk child of the root; the branch decision is taken at the second
\* growth step: if cross-section 1 has children at all, it has exactly two,
\* indices 2 and 3, both of depth 1.
C12_SecondStepBranches ==
    (Idle /\ ForcedBranch /\ Len(cross_sections) > 1) =>
        /\ Cs(1).depth = 0
        /\ Cs(1).g_origin = "continuation"
        /\ TrunkChildren(0) = {1}
        /\ Children(1) # <<>> =>
              /\ Children(1) = <<2, 3>>
              /\ Cs(2).depth = 1 /\ Cs(2).g_origin = "fork_trunk"
              /\ Cs(3).depth = 1 /\ Cs(3).g_origin = "fork_branch"

\* a finished tree of the scenario with its branch point at index 1
C12_Witness ==
    /\ Idle
    /\ ForcedBranch
    /\ Len(cross_sections) > 3
    /\ IsBranchPoint(1)

\* C13: with roots disabled, once trunk and branch generation is over no
\* ring of any cross-section has ring_type Root and no cross-section of the
\* list was created by the root engine.
C13_NoRootsWhenDisabled ==
    (pc \in {"twigs", "idle"} /\ ~params.root_enable) =>
        \A i \in CsIndices :
            /\ ~IsRootCs(Cs(i))
            /\ \A k \in 1..Len(Cs(i).component_rings) :
                   Cs(i).component_rings[k].ring_type # "Root"

\* a finished tree with several cross-sections, generated with roots disabled
C13_Witness ==
    /\ Idle
    /\ ~params.root_enable
    /\ Len(cross_sections) > 3
    /\ \E i \in CsIndices : IsBranchPoint(i)

TwigIndices == 1..Len(twigs)

\* C14: every twig of the list was generated for a ring whose radius is at
\* most 2 x attachment_threshold (0.1), whatever the density and the draws;
\* a twig of the latest pass sits at the centre of its cross-section, which
\* has a ring of that radius that is not a Root ring.
C14_TwigRadiusGating ==
    /\ \A t \in TwigIndices : twigs[t].g_radius <= 1000
    /\ Idle =>
          \A t \in TwigIndices :
              ~twigs[t].g_stale =>
                  /\ twigs[t].g_index \in CsIndices
                  /\ twigs[t].position = Cs(twigs[t].g_index).center
                  /\ \E k \in 1..Len(Cs(twigs[t].g_index).component_rings) :
                         /\ Cs(twigs[t].g_index).component_rings[k].radius = twigs[t].g_radius
                         /\ Cs(twigs[t].g_index).component_rings[k].ring_type # "Root"

\* a finished tree with a twig on a medium ring (between the threshold and
\* twice the threshold), a twig on a thin ring, and a thicker ring of the
\* branch engine left without twigs
C14_Witness ==
    /\ Idle
    /\ \E t \in TwigIndices : ~twigs[t].g_stale /\ twigs[t].g_radius > 500
    /\ \E t \in TwigIndices : ~twigs[t].g_stale /\ twigs[t].g_radius <= 500
    /\ \E i \in CsIndices :
          /\ ~IsRootCs(Cs(i))
          /\ \E k \in 1..Len(Cs(i).component_rings) :
                 /\ Cs(i).component_rings[k].radius > 1000
                 /\ Cs(i).component_rings[k].radius < 2000

---------------------------------------------------------------------------
(* The read accessors, called on the finished trees of PassInit *)

AccessNext ==
    \/ PassNext
    \/ RingCenter
    \/ RingRadius
    \/ TwigPosition
    \/ TwigOrientation
    \/ TwigScale
    \/ TwigTypeName

AccessSpec == PassInit /\ [][AccessNext]_vars

RingAccessors == {"ring_center", "ring_radius"}

\* the count an accessor's index is compared with
CountFor(op) ==
    IF op \in RingAccessors THEN rings_count(cross_sections) ELSE twigs_count(twigs)

\* the value the accessor named op has to return for a present element
Expected(op, index) ==
    CASE op = "ring_center"        -> Cs(index).center
      [] op = "ring_radius"        -> Cs(index).component_rings[1].radius
      [] op = "twig_position"      -> twigs[index + 1].position
      [] op = "twig_orientation"   -> <<result.value[1][1], index>>
      [] op = "twig_scale"         -> twigs[index + 1].scale
      [] op = "twig_type"          -> twigs[index + 1].twig_type

ResultMatchesIndex ==
    result # NoResult =>
        IF result.index >= CountFor(result.op)
        THEN result.value = Absent
        ELSE result.value = Present(Expected(result.op, result.index))

ReadOnly ==
    result' # result =>
        UNCHANGED <<engine, params, cross_sections, twigs, rng, stack, pc, mesh>>

\* C15: every read accessor returns None for every index >= the count of
\* its list and the element's value for every index below it, whatever the
\* index; and a call of an accessor changes nothing of the object.
C15_AccessorsTotalAndReadOnly == []ResultMatchesIndex /\ [][ReadOnly]_vars

\* ring_radius has answered None for the index just past the last
\* cross-section of a tree with twigs
C15_Witness ==
    /\ result.op = "ring_radius"
    /\ result.index = Len(cross_sections)
    /\ result.value = Absent
    /\ Len(cross_sections) > 3
    /\ twigs # <<>>

---------------------------------------------------------------------------
(* The numeric setters, called with arguments inside and outside every    *)
(* range on an object configured for small trees.                          *)

\* the calls made: setter and arguments (b is the second argument of the
\* range setters).  f32 arguments are negative, zero, or larger than
\* MaxMagnitude; u32 arguments are zero or larger than MaxMagnitude;
\* max_depth and trunk_size stay where the tree and the squared radii stay
\* small.
SetterCalls ==
    LET FloatArgs == {-1, 0, MaxMagnitude + 1}
        UnsignedArgs == {0, MaxMagnitude + 1}
        FloatSetters ==
            { "trunk_height", "butressing", "split_height", "segment_length",
              "radius_taper", "trunk_ring_spread", "segment_length_variation",
              "branch_azimuth_variation", "max_branch_reach", "root_depth",
              "root_spread", "root_segment_length", "twig_density", "twig_scale",
              "twig_angle_variation" }
    IN { [ setter |-> s, a |-> a, b |-> 0 ] : s \in FloatSetters, a \in FloatArgs }
       \cup { [ setter |-> s, a |-> a, b |-> b ] :
                 s \in {"branch_angle_range", "bend_angle_range"},
                 a \in FloatArgs, b \in FloatArgs }
       \cup { [ setter |-> "branch_frequency_range", a |-> a, b |-> b ] :
                 a \in UnsignedArgs, b \in UnsignedArgs }
       \cup { [ setter |-> "max_depth", a |-> a, b |-> 0 ] : a \in {0, MaxDepthParam} }
       \cup { [ setter |-> "root_density", a |-> a, b |-> 0 ] : a \in UnsignedArgs }
       \cup { [ setter |-> "trunk_size", a |-> a, b |-> 0 ] : a \in {-1, 0, MaxTrunkSizeArg} }
       \cup { [ setter |-> s, a |-> Infinity, b |-> 0 ] : s \in {"trunk_height", "split_height"} }

\* the fields after the assignment of setter c.setter called with c.a (and c.b)
Stored(p, c) ==
    CASE c.setter = "trunk_height"   -> [ p EXCEPT !.trunk_height = c.a ]
      [] c.setter = "butressing"     -> [ p EXCEPT !.butressing = c.a ]
      [] c.setter = "split_height"   -> [ p EXCEPT !.split_height = c.a ]
      [] c.setter = "segment_length" -> [ p EXCEPT !.segment_length = ClampSegmentLength(c.a) ]
      [] c.setter = "branch_angle_range" ->
             [ p EXCEPT !.branch_angle_min = Min(c.a, c.b), !.branch_angle_max = Max(c.b, c.a) ]
      [] c.setter = "bend_angle_range" ->
             [ p EXCEPT !.bend_angle_min = Min(c.a, c.b), !.bend_angle_max = Max(c.b, c.a) ]
      [] c.setter = "branch_frequency_range" ->
             [ p EXCEPT !.branch_frequency_min = ClampFrequencyMin(c.a, c.b),
                        !.branch_frequency_max = ClampFrequencyMax(c.a, c.b) ]
      [] c.setter = "max_depth"      -> [ p EXCEPT !.max_depth = ClampMaxDepth(c.a) ]
      [] c.setter = "radius_taper"   -> [ p EXCEPT !.radius_taper = ClampRadiusTaper(c.a * 10) ]
      [] c.setter = "trunk_ring_spread" ->
             [ p EXCEPT !.trunk_ring_spread = Clamp(c.a * 10, 0, 2000) ]
      [] c.setter = "segment_length_variation" ->
             [ p EXCEPT !.segment_length_variation = Clamp(c.a * 10, 0, 1000) ]
      [] c.setter = "trunk_size"     -> [ p EXCEPT !.trunk_size = ClampTrunkSize(c.a) ]
      [] c.setter = "branch_azimuth_variation" ->
             [ p EXCEPT !.branch_azimuth_variation = Clamp(c.a * 10, 0, 1000) ]
      [] c.setter = "max_branch_reach" ->
             [ p EXCEPT !.max_branch_reach = ClampMaxBranchReach(c.a * 100) ]
      [] c.setter = "root_depth"     -> [ p EXCEPT !.root_depth = ClampRootDepth(c.a * 10) ]
      [] c.setter = "root_spread"    -> [ p EXCEPT !.root_spread = Clamp(c.a * 100, 500, 2000) ]
      [] c.setter = "root_density"   -> [ p EXCEPT !.root_density = ClampRootDensity(c.a) ]
      [] c.setter = "root_segment_length" ->
             [ p EXCEPT !.root_segment_length = ClampRootSegmentLength(c.a) ]
      [] c.setter = "twig_density"   -> [ p EXCEPT !.twig_density = ClampTwigDensity(c.a) ]
      [] c.setter = "twig_scale"     -> [ p EXCEPT !.twig_scale = Clamp(c.a * 100, 100, 3000) ]
      [] c.setter = "twig_angle_variation" ->
             [ p EXCEPT !.twig_angle_variation = Clamp(c.a * 10, 0, 1000) ]

\* the object the setters are called on: new(0, 1.0, 1.0), then
\* set_max_depth(1), set_segment_length(0.5), set_max_branch_reach(2.0),
\* set_branch_frequency_range(1, 1), set_root_enable(false)
SetterBase(e) ==
    [ NewParams(e, 0, 100, 10) EXCEPT
        !.max_depth            = ClampMaxDepth(1),
        !.segment_length       = ClampSegmentLength(50),
        !.max_branch_reach     = ClampMaxBranchReach(200),
        !.branch_frequency_min = ClampFrequencyMin(1, 1),
        !.branch_frequency_max = ClampFrequencyMax(1, 1),
        !.root_enable          = FALSE ]

ChangedFields == { f \in DOMAIN params : params[f] # SetterBase(engine)[f] }

SetterInit ==
    /\ engine \in Engines
    /\ params = SetterBase(engine)
    /\ cross_sections = FreshMachine.cross_sections
    /\ twigs = FreshMachine.twigs
    /\ rng = FreshMachine.rng
    /\ stack = FreshMachine.stack
    /\ pc = FreshMachine.pc
    /\ mesh = NoMesh
    /\ result = NoResult

\* a numeric setter: clamp or reorder, store, regenerate_tree()
SetNumeric ==
    /\ Cardinality(ChangedFields) < MaxChangedFields
    /\ \E c \in SetterCalls : Setter(Stored(params, c))

SetterNext ==
    \/ PassNext
    \/ GrowPanic
    \/ SetNumeric
    \/ (Cardinality(ChangedFields) < MaxChangedFields /\ SetRootEnable)

SetterSpec == SetterInit /\ [][SetterNext]_vars

InMagnitude(x) == -MaxMagnitude <= x /\ x <= MaxMagnitude

\* C16 as stated: after any sequence of setter calls every numeric
\* parameter lies inside a fixed finite range: the range its setter clamps
\* to, and for the parameters whose setters have none (trunk height,
\* buttressing, split height, segment length, the angles, the frequencies,
\* max_depth) a range of MaxMagnitude units either side of zero.
C16_EveryParameterBounded ==
    /\ InMagnitude(params.trunk_height)
    /\ InMagnitude(params.butressing)
    /\ InMagnitude(params.split_height)
    /\ InMagnitude(params.segment_length)
    /\ InMagnitude(params.branch_angle_min) /\ InMagnitude(params.branch_angle_max)
    /\ InMagnitude(params.bend_angle_min) /\ InMagnitude(params.bend_angle_max)
    /\ InMagnitude(params.branch_frequency_min) /\ InMagnitude(params.branch_frequency_max)
    /\ InMagnitude(params.max_depth)
    /\ params.radius_taper \in 100..1000
    /\ params.trunk_ring_spread \in 0..2000
    /\ params.segment_length_variation \in 0..1000
    /\ params.trunk_size \in 1..100
    /\ params.branch_azimuth_variation \in 0..1000
    /\ params.max_branch_reach \in 200..5000
    /\ params.root_depth \in 50..300
    /\ params.root_spread \in 500..2000
    /\ params.root_density \in 2..8
    /\ params.root_segment_length \in 10..80
    /\ params.twig_density \in 1..20
    /\ params.twig_scale \in 100..3000
    /\ params.twig_angle_variation \in 0..1000

\* C17: in every state of the object, so at every start of a regeneration,
\* segment_length >= 0.01, angle_min <= angle_max, bend_angle_min <=
\* bend_angle_max, 1 <= frequency_min <= frequency_max and max_depth >= 1.
C17_ParametersWellFormed ==
    /\ params.segment_length >= 1
    /\ params.branch_angle_min <= params.branch_angle_max
    /\ params.bend_angle_min <= params.bend_angle_max
    /\ 1 <= params.branch_frequency_min
    /\ params.branch_frequency_min <= params.branch_frequency_max
    /\ params.max_depth >= 1

\* a regeneration about to start after set_bend_angle_range was called with
\* its arguments the wrong way round on a generated tree
C17_Witness ==
    /\ pc = "regen"
    /\ cross_sections # <<>>
    /\ params.bend_angle_min = -1
    /\ params.bend_angle_max = MaxMagnitude + 1

RECURSIVE AncestorSets(_, _, _)
\* acc extended by the ancestor sets of cross-sections lo..hi, each built
\* from the set of its parent, which has a smaller index (the range is
\* halved to keep the evaluation shallow)
AncestorSets(lo, hi, acc) ==
    IF lo > hi THEN acc
    ELSE IF lo = hi
    THEN Append(acc, IF Cs(lo).parent_index = None THEN {}
                     ELSE acc[Cs(lo).parent_index + 1] \cup {Cs(lo).parent_index})
    ELSE CHOOSE r \in { AncestorSets((lo + hi) \div 2 + 1, hi, left) :
                           left \in { AncestorSets(lo, (lo + hi) \div 2, acc) } } : TRUE

Ancestors == AncestorSets(0, Len(cross_sections) - 1, <<>>)

ForkTrunkChild(b) == CHOOSE c \in ChildSet(b) : Cs(c).g_origin = "fork_trunk"

\* C18: at every branch point the trunk-continuation child t and the branch
\* child are stored at t and t + 1, every descendant of t has an index
\* greater than t + 1, and every descendant of t is stored before every
\* descendant of t + 1: the trunk subtree is generated whole before the
\* branch subtree is begun.
C18_TrunkSubtreeBeforeBranchSubtree ==
    LET anc == Ancestors
        Desc(i) == { d \in CsIndices : i \in anc[d + 1] }
    IN \A b \in CsIndices :
           IsBranchPoint(b) =>
               LET t == ForkTrunkChild(b)
               IN /\ t + 1 \in ChildSet(b)
                  /\ Cs(t + 1).g_origin = "fork_branch"
                  /\ \A d \in Desc(t) :
                         /\ d > t + 1
                         /\ \A e \in Desc(t + 1) : d < e

\* a finished tree with a branch point whose trunk subtree holds a branch
\* point of its own and whose branch subtree has grown too
C18_Witness ==
    /\ Idle
    /\ \E b \in CsIndices :
          /\ IsBranchPoint(b)
          /\ \E d \in CsIndices :
                /\ d > ForkTrunkChild(b) + 1
                /\ IsBranchPoint(d)
                /\ ForkTrunkChild(b) \in Ancestors[d + 1]
          /\ \E e \in CsIndices : ForkTrunkChild(b) + 1 \in Ancestors[e + 1]

\* C19 as stated: in every pending call of the growth recursion the number
\* of continuation segments made since the lineage entered its depth is at
\* most the cap of that depth, the cap of depth 0-2 being computed from the
\* trunk height parameter: max(ceil(trunk_height / segment_length) + 10, 20).
C19_SegmentCapFromTrunkHeight ==
    \A k \in 1..Len(stack) :
        stack[k].kind = "grow" =>
            stack[k].segments_at_current_depth <=
                MaxSegmentsAtDepth(stack[k].depth, params.trunk_height, params.segment_length)

\* a growth step that passes all hard stops is about to be taken
GrowthStepReady ==
    /\ pc = "grow"
    /\ stack # <<>>
    /\ ~GrowStops(cross_sections, Head(stack), engine, params)

\* the three conditions of the branch decision, for the pending call f
BranchConditions(f) ==
    LET freq_min == Max(params.branch_frequency_min, 1)
        freq_max == Max(params.branch_frequency_max, freq_min)
        threshold == GenRangeInt(Raw(rng, 5), freq_min, freq_max)
        next_height == NextCenter(cross_sections, f, rng, params)[2]
    IN /\ f.segments_since_branch >= threshold
       /\ next_height >= params.split_height
       /\ f.depth < params.max_depth - 1

GrowthStepOutcome ==
    GrowthStepReady =>
        LET f == Head(stack)
            n == Len(cross_sections)
        IN IF BranchConditions(f)
           THEN /\ Len(cross_sections') = n + 2
                /\ cross_sections'[f.index + 1].children_indices =
                       Children(f.index) \o <<n, n + 1>>
                /\ cross_sections'[n + 1].depth = f.depth + 1
                /\ cross_sections'[n + 2].depth = f.depth + 1
                /\ cross_sections'[n + 1].parent_index = f.index
                /\ cross_sections'[n + 2].parent_index = f.index
                /\ Len(stack') = Len(stack) + 1
                /\ \A k \in 1..2 :
                       /\ stack'[k].index = n + k - 1
                       /\ stack'[k].depth = f.depth + 1
                       /\ stack'[k].segments_since_branch = 0
                       /\ stack'[k].segments_at_current_depth = 0
           ELSE /\ Len(cross_sections') = n + 1
                /\ cross_sections'[f.index + 1].children_indices =
                       Children(f.index) \o <<n>>
                /\ cross_sections'[n + 1].depth = f.depth
                /\ cross_sections'[n + 1].parent_index = f.index
                /\ Len(stack') = Len(stack)
                /\ stack'[1].index = n
                /\ stack'[1].depth = f.depth
                /\ stack'[1].segments_since_branch = f.segments_since_branch + 1
                /\ stack'[1].segments_at_current_depth = f.segments_at_current_depth + 1

\* C20: a growth step that passes all hard stops creates two children of
\* depth + 1, each starting with both counters at 0, if and only if
\* segments_since_branch >= threshold and next_height >= split_height and
\* depth < max_depth - 1; otherwise it creates exactly one child at the same
\* depth and continues from it with both segment counters incremented by 1.
C20_BranchDecision == [][GrowthStepOutcome]_vars

\* under a frequency range of several values, after a branch point was
\* made, a lineage of depth 1 or more has taken continuation steps and is
\* ready for a step that will branch again
C20_Witness ==
    /\ GrowthStepReady
    /\ params.branch_frequency_min < params.branch_frequency_max
    /\ Head(stack).depth >= 1
    /\ Head(stack).segments_since_branch >= 1
    /\ BranchConditions(Head(stack))
    /\ \E b \in CsIndices : IsBranchPoint(b)

---------------------------------------------------------------------------
(* Ring splitting at a branch point *)

ForkBranchChild(b) == CHOOSE c \in ChildSet(b) : Cs(c).g_origin = "fork_branch"

\* ring k of the child is derived from ring src (0-based) of the parent: it
\* records that source, keeps its type and is no wider than it
DerivedFrom(child, k, parent, src) ==
    /\ child.component_rings[k].g_src = src
    /\ child.component_rings[k].ring_type = parent.component_rings[src + 1].ring_type
    /\ child.component_rings[k].radius <= parent.component_rings[src + 1].radius

ForkFrames ==
    { k \in 1..Len(stack) :
        /\ stack[k].kind = "grow"
        /\ stack[k].index \in CsIndices
        /\ Cs(stack[k].index).g_origin \in {"fork_trunk", "fork_branch"} }

\* C21: at every branch point with n parent rings the branch child holds
\* exactly one ring, derived from the last parent ring; the trunk
\* continuation holds exactly one ring derived from the single parent ring
\* when n = 1 and exactly the first n - 1 parent rings in their order when
\* n >= 2; both children have the parent's depth plus 1, and the pending
\* call of either child starts with both segment counters at 0.
C21_RingSplitting ==
    /\ \A b \in CsIndices :
         IsBranchPoint(b) =>
           LET n == Len(Cs(b).component_rings)
               t == Cs(ForkTrunkChild(b))
               r == Cs(ForkBranchChild(b))
           IN /\ n >= 1
              /\ Len(r.component_rings) = 1
              /\ DerivedFrom(r, 1, Cs(b), n - 1)
              /\ Len(t.component_rings) = IF n = 1 THEN 1 ELSE n - 1
              /\ \A k \in 1..Len(t.component_rings) : DerivedFrom(t, k, Cs(b), k - 1)
              /\ t.depth = Cs(b).depth + 1
              /\ r.depth = Cs(b).depth + 1
    /\ \A k \in ForkFrames :
         /\ stack[k].segments_since_branch = 0
         /\ stack[k].segments_at_current_depth = 0
         /\ stack[k].depth = Cs(stack[k].index).depth

\* a pass has split a one-ring parent and a parent of three rings, and the
\* two calls of a fresh branch point are pending
C21_Witness ==
    /\ \E b \in CsIndices : IsBranchPoint(b) /\ Len(Cs(b).component_rings) = 1
    /\ \E b \in CsIndices : IsBranchPoint(b) /\ Len(Cs(b).component_rings) >= 3
    /\ Cardinality(ForkFrames) >= 2

\* the branch child of b is thinner than its trunk-continuation child: the
\* effective radii, square roots of the sums of squared ring radii, are
\* compared on their squares
BranchThinner(b) ==
    SumSq(Cs(ForkBranchChild(b)).component_rings)
        < SumSq(Cs(ForkTrunkChild(b)).component_rings)

BranchThicker(b) ==
    SumSq(Cs(ForkBranchChild(b)).component_rings)
        > SumSq(Cs(ForkTrunkChild(b)).component_rings)

\* C22 as stated: at every branch point, of a one-ring parent and of a
\* parent with two or more rings alike, the effective radius of the branch
\* child is strictly smaller than that of the trunk-continuation child.
C22_BranchAlwaysThinner ==
    \A b \in CsIndices : IsBranchPoint(b) => BranchThinner(b)

\* C22 amended: the branch child is strictly thinner than the trunk
\* continuation at every branch point whose parent has one ring or three
\* or more rings; at a branch point whose parent has exactly two rings the
\* branch child is strictly thicker.
C22_BranchThinnerExceptTwoRings ==
    \A b \in CsIndices :
        IsBranchPoint(b) =>
            IF Len(Cs(b).component_rings) = 2 THEN BranchThicker(b)
                                              ELSE BranchThinner(b)

\* a pass has branched from a parent of one ring, of two rings and of
\* three rings
C22_Witness ==
    \A n \in 1..3 :
        \E b \in CsIndices : IsBranchPoint(b) /\ Len(Cs(b).component_rings) = n

\* C23: the base cross-section made by generate_trunk_rings has 1 ring at
\* buttressing 0.5, 3 rings at 1.0, 4 rings at 1.5 and 5 rings at 2.0, the
\* counts the comment above the computation documents.
C23_RingCountAsDocumented ==
    cross_sections # <<>> =>
        LET n == Len(Cs(0).component_rings)
        IN /\ params.butressing = 5  => n = 1
           /\ params.butressing = 10 => n = 3
           /\ params.butressing = 15 => n = 4
           /\ params.butressing = 20 => n = 5

\* the counts the computation gives at the four documented buttressings
C23_RingCountAsComputed ==
    cross_sections # <<>> =>
        LET n == Len(Cs(0).component_rings)
        IN /\ params.butressing = 5  => n = 1
           /\ params.butressing = 10 => n = 2
           /\ params.butressing = 15 => n = 4
           /\ params.butressing = 20 => n = 5

IsRootStart(c) == Cs(c).g_origin = "root_start"

\* the first cross-sections of the lateral roots, in the order of the loop
\* of generate_root_system
LateralRoots == IF cross_sections = <<>> THEN <<>> ELSE SelectSeq(Children(0), IsRootStart)

\* C24: when the base cross-section has n >= 2 rings, lateral root i is
\* attached to trunk ring i mod n (with n = 2 and root_density 4: rings
\* 0, 1, 0, 1).
C24_RootsRoundRobin ==
    \A k \in 1..Len(LateralRoots) :
        LET n == Len(Cs(0).component_rings)
        IN n >= 2 => Cs(LateralRoots[k]).component_rings[1].g_src = (k - 1) % n

ThinRoot(c) == IsRootCs(c) /\ Len(c.component_rings) = 1 /\ c.component_rings[1].radius < 100

\* C25: after the root generation of tree-rs no root cross-section whose
\* single ring has a radius below 0.01 has a child, whatever radius_taper
\* is: neither a main continuation nor a side root grows from it.
C25_ThinRootsHaveNoChild ==
    (Idle /\ engine = "tree_rs") =>
        \A i \in CsIndices : ThinRoot(Cs(i)) => Children(i) = <<>>

\* C26: after a full pass with roots and twigs enabled no twig was
\* generated from a ring of a cross-section made by the root engine, for
\* every trunk size, buttressing and twig density.
C26_NoTwigsOnRoots ==
    (Idle /\ params.root_enable /\ params.twig_enable) =>
        \A t \in TwigIndices : ~twigs[t].g_stale => ~IsRootCs(Cs(twigs[t].g_index))

---------------------------------------------------------------------------
(* Deep trees.  A tree that branches at every opportunity doubles its      *)
(* lineages with each depth; the trees followed here stay small because    *)
(* the trunk is made of 50 thin lobes (buttressing 16.9 at the smallest    *)
(* trunk size, radius_taper 1): every branch point peels one lobe off, the *)
(* trunk keeps enough lobes to pass the radius stop at every depth, and    *)
(* the one-lobe branches fall under it after a few segments.  max_depth is *)
(* the tree-rs default and a larger value, so that only the segment caps   *)
(* bound the depth.                                                        *)

DeepInit ==
    /\ engine \in Engines
    /\ \E seed \in Seeds, max_depth \in {20, 25},
          frequency \in {<<1, 1>>, <<2, 2>>, <<1, 3>>} :
          params = [ NewParams(engine, seed, 100, 169) EXCEPT
                       !.trunk_size           = ClampTrunkSize(1),
                       !.max_depth            = ClampMaxDepth(max_depth),
                       !.radius_taper         = ClampRadiusTaper(1000),
                       !.split_height         = 0,
                       !.segment_length       = ClampSegmentLength(10),
                       !.branch_frequency_min = ClampFrequencyMin(frequency[1], frequency[2]),
                       !.branch_frequency_max = ClampFrequencyMax(frequency[1], frequency[2]),
                       !.max_branch_reach     = ClampMaxBranchReach(5000) ]
    /\ cross_sections = FreshMachine.cross_sections
    /\ twigs = FreshMachine.twigs
    /\ rng = FreshMachine.rng
    /\ stack = FreshMachine.stack
    /\ pc = FreshMachine.pc
    /\ mesh = NoMesh
    /\ result = NoResult

\* the start of the pass and the growth recursion
DeepNext == StartRegenerate \/ GrowStop \/ GrowContinue \/ GrowBranch

DeepSpec == DeepInit /\ [][DeepNext]_vars

\* C27: whatever max_depth is, no branch point has a depth above 16 and no
\* cross-section made by the branch engine has a depth above 17; when the
\* effective frequency_min is 2 or more no branch point has a depth above 12.
C27_DepthBoundedByCaps ==
    \A i \in CsIndices :
        /\ ~IsRootCs(Cs(i)) => Cs(i).depth <= 17
        /\ IsBranchPoint(i) => Cs(i).depth <= 16
        /\ (IsBranchPoint(i) /\ FreqMin(params) >= 2) => Cs(i).depth <= 12

\* with max_depth 20 or more a tree has a branch point at depth 16, whose
\* children at depth 17 were each followed by one more cross-section
C27_Witness ==
    /\ params.max_depth >= 20
    /\ \E b \in CsIndices :
         /\ IsBranchPoint(b)
         /\ Cs(b).depth = 16
         /\ Children(ForkTrunkChild(b)) # <<>>
         /\ Cs(ForkTrunkChild(b)).depth = 17

\* the pending call of the growth recursion is about to return at the
\* 'no rings left' test: the depth and segment-cap tests before it passed
StopsForNoRings ==
    /\ pc = "grow"
    /\ stack # <<>>
    /\ ~DepthStop(Head(stack), params)
    /\ ~SegmentCapStop(Head(stack), engine, params)
    /\ NoRingsStop(Cs(Head(stack).index))

\* C28: every cross-section has at least one ring, the 'no rings left' stop
\* is never the reason a lineage ends, and ring_radius(i) is present for
\* every index i below rings_count().
C28_NoEmptyCrossSection ==
    /\ \A i \in CsIndices : Len(Cs(i).component_rings) >= 1
    /\ ~StopsForNoRings
    /\ \A i \in 0..(rings_count(cross_sections) - 1) :
           ring_radius(cross_sections, i) # Absent

\* a finished tree holds a one-ring branch point, whose two children share
\* the parent's only ring, a parent of several rings, and root
\* cross-sections
C28_Witness ==
    /\ Idle
    /\ \E b \in CsIndices : IsBranchPoint(b) /\ Len(Cs(b).component_rings) = 1
    /\ \E b \in CsIndices : IsBranchPoint(b) /\ Len(Cs(b).component_rings) >= 2
    /\ \E i \in CsIndices : IsRootCs(Cs(i))

GrowFrames == { k \in 1..Len(stack) : stack[k].kind = "grow" }

\* C30: in every call of the growth recursion segments_since_branch equals
\* segments_at_current_depth; so a cross-section at depth d is a branch
\* point only if max(frequency_min, 1) is at most the segment cap of d
\* minus 1, and neither the base cross-section nor a cross-section made by
\* branch creation is itself a branch point.
C30_CountersEqual ==
    /\ \A k \in GrowFrames :
           stack[k].segments_since_branch = stack[k].segments_at_current_depth
    /\ \A b \in CsIndices :
           IsBranchPoint(b) =>
             /\ FreqMin(params) <=
                    MaxSegmentsAtDepth(Cs(b).depth, TrunkHeightArg(engine, params),
                                       params.segment_length) - 1
             /\ Cs(b).g_origin = "continuation"

\* a call is pending with both counters at 2, in a tree that already has a
\* branch point with a branch point below it
C30_Witness ==
    /\ GrowthStepReady
    /\ Head(stack).segments_since_branch = 2
    /\ Head(stack).segments_at_current_depth = 2
    /\ \E b \in CsIndices :
         /\ IsBranchPoint(b)
         /\ \E a \in CsIndices : IsBranchPoint(a) /\ Cs(a).depth < Cs(b).depth

\* C29: no u32 arithmetic of the growth step overflows or underflows for
\* parameter values reachable through the constructor and the setters: a
\* call that passes the depth test, and so may evaluate max_depth - 1, has
\* max_depth >= 1, and at depth 0..2 the sum ceil(height / segment_length)
\* as u32 + 10 stays below 2^32 (height being the split height in tree-rs).
C29_NoU32Overflow ==
    /\ pc # "aborted"
    /\ (pc = "grow" /\ stack # <<>> /\ ~DepthStop(Head(stack), params)) =>
         /\ params.max_depth >= 1
         /\ Head(stack).depth <= 2 =>
              ~MinSegmentsPlusTen(TrunkHeightArg(engine, params),
                                  params.segment_length).overflow

=============================================================================
